---- MODULE Spec2Model ----
(***************************************************************************)
(* Model of the numeric training engine of the neural-network visualizer   *)
(* (frontend/src/components/neural-network/NeuralNetworkCompute.tsx) and   *)
(* of the React hook that drives it (hooks/useNetworkConfiguration.ts).    *)
(*                                                                         *)
(* Numbers.  A JavaScript number is modelled as a fixed-point integer in   *)
(* units of 1/Scale, finite while its magnitude is at most MaxNum; beyond  *)
(* that the value is +Infinity or -Infinity, and NaN is a value of its     *)
(* own.  The three non-finite values are integers outside the finite       *)
(* range so that every number is an integer.  An array read past the end   *)
(* yields undefined, which every arithmetic use turns into NaN.            *)
(*                                                                         *)
(* Indices.  JavaScript arrays are 0-based, sequences here are 1-based:    *)
(* layer i of the source is layers[i+1] here, and the weight key           *)
(* `layer${i}_${i+1}` of the source is the key i+1 of a weight table.      *)
(***************************************************************************)
EXTENDS Integers, Sequences, FiniteSets, TLC

\* ------------------------------------------------------------------------
\* Number representation
\* ------------------------------------------------------------------------
Scale == 200
MaxNum == 20000
PInf == 2000000001
NInf == -PInf
NaN == 2000000003

IsNaN(x) == x = NaN
IsFinite(x) == x >= -MaxNum /\ x <= MaxNum

\* n/d rounded to the nearest integer, halves away from zero (d > 0).
RDiv(n, d) == IF n >= 0 THEN (2 * n + d) \div (2 * d)
              ELSE -((2 * (-n) + d) \div (2 * d))

\* The number a finite exact result r becomes: overflow gives an infinity.
Norm(r) == IF r > MaxNum THEN PInf ELSE IF r < -MaxNum THEN NInf ELSE r

Sign(x) == IF x > 0 THEN 1 ELSE IF x < 0 THEN -1 ELSE 0

Add(a, b) ==
    IF IsNaN(a) \/ IsNaN(b) THEN NaN
    ELSE IF a = PInf THEN (IF b = NInf THEN NaN ELSE PInf)
    ELSE IF a = NInf THEN (IF b = PInf THEN NaN ELSE NInf)
    ELSE IF b = PInf \/ b = NInf THEN b
    ELSE Norm(a + b)

Sub(a, b) == Add(a, IF IsNaN(b) THEN NaN ELSE -b)

Mul(a, b) ==
    IF IsNaN(a) \/ IsNaN(b) THEN NaN
    ELSE IF IsFinite(a) /\ IsFinite(b) THEN Norm(RDiv(a * b, Scale))
    ELSE IF a = 0 \/ b = 0 THEN NaN
    ELSE IF Sign(a) * Sign(b) > 0 THEN PInf ELSE NInf

Div(a, b) ==
    IF IsNaN(a) \/ IsNaN(b) THEN NaN
    ELSE IF ~IsFinite(a) THEN
        (IF ~IsFinite(b) THEN NaN
         ELSE IF Sign(a) * (IF b >= 0 THEN 1 ELSE -1) > 0 THEN PInf ELSE NInf)
    ELSE IF ~IsFinite(b) THEN 0
    ELSE IF b = 0 THEN (IF a = 0 THEN NaN ELSE IF a > 0 THEN PInf ELSE NInf)
    ELSE Norm(Sign(b) * RDiv(a * Scale, Sign(b) * b))

\* Comparisons: every comparison with NaN is false.
Lt(a, b) == ~IsNaN(a) /\ ~IsNaN(b) /\ a < b

MathMax(a, b) == IF IsNaN(a) \/ IsNaN(b) THEN NaN ELSE IF a >= b THEN a ELSE b
MathMin(a, b) == IF IsNaN(a) \/ IsNaN(b) THEN NaN ELSE IF a <= b THEN a ELSE b
MathAbs(a) == IF IsNaN(a) THEN NaN ELSE IF a < 0 THEN -a ELSE a

\* s[i] of the source: undefined past the end, NaN once used in arithmetic.
Elem(s, i) == IF i \in DOMAIN s THEN s[i] ELSE NaN

\* An array of the source: its elements are values, computed when the array
\* is built.
Array(s) == s \o << >>

\* Number(Number(w).toFixed(2)): the nearest multiple of 0.01.
ToFixed2(w) == IF IsFinite(w) THEN RDiv(w, Scale \div 100) * (Scale \div 100) ELSE w

\* ------------------------------------------------------------------------
\* Activation functions
\* ------------------------------------------------------------------------
\* Math.tanh on the grid: linear interpolation between exact values of tanh
\* at 0, 0.5, 1, 1.5, 2 and 3 (in thousandths); 1 from 3 on.  Odd, monotone,
\* within [-1, 1].
TanhKnots == << <<0, 0>>, <<500, 462>>, <<1000, 762>>, <<1500, 905>>,
                <<2000, 964>>, <<3000, 995>>, <<3001, 1000>> >>

RECURSIVE Interp(_, _, _)
Interp(knots, i, m) ==
    IF i >= Len(knots) THEN knots[Len(knots)][2]
    ELSE IF m <= knots[i + 1][1]
         THEN knots[i][2] + RDiv((knots[i + 1][2] - knots[i][2]) * (m - knots[i][1]),
                                 knots[i + 1][1] - knots[i][1])
         ELSE Interp(knots, i + 1, m)

\* x (units of 1/Scale) in thousandths, capped where the table ends.
Milli(x) == IF x * 1000 > 3001 * Scale THEN 3001 ELSE RDiv(x * 1000, Scale)

tanh(x) ==
    IF IsNaN(x) THEN NaN
    ELSE IF x = PInf THEN Scale
    ELSE IF x = NInf THEN -Scale
    ELSE IF x >= 0 THEN RDiv(Interp(TanhKnots, 1, Milli(x)) * Scale, 1000)
    ELSE -RDiv(Interp(TanhKnots, 1, Milli(-x)) * Scale, 1000)

\* 1 / (1 + Math.exp(-x)) on the grid, through the identity
\* sigmoid(x) = (1 + tanh(x/2)) / 2.
sigmoid(x) ==
    IF IsNaN(x) THEN NaN
    ELSE IF x = PInf THEN Scale
    ELSE IF x = NInf THEN 0
    ELSE RDiv(Scale + tanh(RDiv(x, 2)), 2)

relu(x) == MathMax(0, x)
linear(x) == x

sigmoidDerivative(x) == Mul(sigmoid(x), Sub(Scale, sigmoid(x)))
reluDerivative(x) == IF Lt(0, x) THEN Scale ELSE 0
tanhDerivative(x) == Sub(Scale, Mul(tanh(x), tanh(x)))
linearDerivative(x) == Scale

\* getActivationFunction(type).output / .derivative
ActOutput(type, x) ==
    CASE type = "relu" -> relu(x)
      [] type = "tanh" -> tanh(x)
      [] type = "linear" -> linear(x)
      [] OTHER -> sigmoid(x)

ActDerivative(type, x) ==
    CASE type = "relu" -> reluDerivative(x)
      [] type = "tanh" -> tanhDerivative(x)
      [] type = "linear" -> linearDerivative(x)
      [] OTHER -> sigmoidDerivative(x)

ensureBounds(val) == MathMax(-Scale, MathMin(Scale, val))

\* ------------------------------------------------------------------------
\* Forward propagation
\* ------------------------------------------------------------------------
\* A layer is [num_neurons |-> n, activation_function |-> kind]; a weight
\* table maps the key i (`layer${i-1}_${i}`) to a flat array; a bias table is
\* an array of arrays, one per layer.  A call either returns or throws the
\* TypeError of reading an element of undefined.
Thrown == [ok |-> FALSE, out |-> << >>]

\* biases[i + 1][j] or layerWeights[weightIndex] with the array undefined.
ReadsUndefined(i, weights, biases) ==
    \/ (i + 1) \notin DOMAIN biases
    \/ i \notin DOMAIN weights

\* z[j] = biases[i+1][j] + sum over k of current[k] * layerWeights[k*next+j],
\* accumulated in the order of the inner loop.
RECURSIVE WeightedSum(_, _, _, _, _, _, _)
WeightedSum(acc, k, current, layerWeights, currentLayerSize, nextLayerSize, j) ==
    IF k > currentLayerSize THEN acc
    ELSE WeightedSum(
            Add(acc, Mul(Elem(current, k),
                         Elem(layerWeights, (k - 1) * nextLayerSize + j))),
            k + 1, current, layerWeights, currentLayerSize, nextLayerSize, j)

PreActivation(i, current, layers, weights, biases) ==
    Array([j \in 1..layers[i + 1].num_neurons |->
        WeightedSum(Elem(biases[i + 1], j), 1, current, weights[i],
                    layers[i].num_neurons, layers[i + 1].num_neurons, j)])

\* current = z.map(activation.output), clamped for i === layers.length - 2.
Activated(i, layers, z) ==
    Array([j \in DOMAIN z |->
            IF i = Len(layers) - 1
            THEN ensureBounds(ActOutput(layers[i].activation_function, z[j]))
            ELSE ActOutput(layers[i].activation_function, z[j])])

RECURSIVE ForwardFrom(_, _, _, _, _)
ForwardFrom(i, current, layers, weights, biases) ==
    IF i > Len(layers) - 1 THEN [ok |-> TRUE, out |-> current]
    ELSE IF ReadsUndefined(i, weights, biases) THEN Thrown
    ELSE ForwardFrom(i + 1,
                     Activated(i, layers, PreActivation(i, current, layers, weights, biases)),
                     layers, weights, biases)

forward(input, layers, weights, biases) ==
    ForwardFrom(1, input, layers, weights, biases)

\* The forward pass of backpropagate: activations[1] is the input,
\* activations[i+1] = activation(layers[i]) of zs[i]; no clamping here.
RECURSIVE BackpropForward(_, _, _, _, _, _)
BackpropLayer(i, activations, zs, z, layers, weights, biases) ==
    BackpropForward(i + 1, Append(activations,
                           Array([j \in DOMAIN z |->
                                     ActOutput(layers[i].activation_function, z[j])])),
                    Append(zs, z), layers, weights, biases)

BackpropForward(i, activations, zs, layers, weights, biases) ==
    IF i > Len(layers) - 1 THEN [ok |-> TRUE, activations |-> activations, zs |-> zs]
    ELSE IF ReadsUndefined(i, weights, biases)
         THEN [ok |-> FALSE, activations |-> << >>, zs |-> << >>]
    ELSE BackpropLayer(i, activations, zs,
                       PreActivation(i, activations[i], layers, weights, biases),
                       layers, weights, biases)

\* geoGrad of one output dimension: the sum over the neighbors of
\* 2 * distDiff * Math.sign(outputDiff).
GeoTerm(outputDiff, targetDiff) ==
    Mul(Mul(2 * Scale, Sub(MathAbs(outputDiff), MathAbs(targetDiff))),
        IF IsNaN(outputDiff) THEN NaN ELSE Sign(outputDiff) * Scale)

RECURSIVE GeoGrad(_, _, _, _, _, _, _, _)
GeoGrad(n, acc, output, i, target, neighbors, layers, wb) ==
    IF n > Len(neighbors) THEN acc
    ELSE GeoGrad(n + 1,
                 Add(acc,
                     GeoTerm(Sub(output,
                                 Elem(forward(neighbors[n].input, layers, wb.weights,
                                              wb.biases).out, i)),
                             Sub(Elem(target, i), Elem(neighbors[n].target, i)))),
                 output, i, target, neighbors, layers, wb)

OutputDelta(outputs, target, neighbors, layers, weights, biases) ==
    Array([i \in DOMAIN outputs |->
        LET mseGrad == Sub(outputs[i], Elem(target, i))
            geoGrad == GeoGrad(1, 0, outputs[i], i, target, neighbors, layers,
                               [weights |-> weights, biases |-> biases])
        IN  Add(mseGrad, Mul(Scale \div 10, geoGrad))])

\* newDelta[i] = (sum over j of weights[key][i*n+j] * delta[j])
\*               * derivative(layers[l]) of zs[l-1][i]
RECURSIVE DeltaSum(_, _, _, _, _, _)
DeltaSum(acc, j, i, layerWeights, delta, nextLayerSize) ==
    IF j > nextLayerSize THEN acc
    ELSE DeltaSum(Add(acc, Mul(Elem(layerWeights, (i - 1) * nextLayerSize + j),
                               Elem(delta, j))),
                  j + 1, i, layerWeights, delta, nextLayerSize)

NewDelta(l, delta, zs, layers, weights) ==
    Array([i \in 1..layers[l].num_neurons |->
        Mul(DeltaSum(0, 1, i, weights[l], delta, layers[l + 1].num_neurons),
            ActDerivative(layers[l].activation_function, Elem(zs[l - 1], i)))])

LayerWeightGradient(l, activations, delta, layers) ==
    Array([n \in 1..(layers[l].num_neurons * layers[l + 1].num_neurons) |->
        LET i == ((n - 1) \div layers[l + 1].num_neurons) + 1
            j == ((n - 1) % layers[l + 1].num_neurons) + 1
        IN  Mul(Elem(activations[l], i), Elem(delta, j))])

RECURSIVE BackwardFrom(_, _, _, _, _, _, _, _)
BackwardFrom(l, delta, wg, bg, fw, layers, weights, biases) ==
    IF l < 1 THEN [ok |-> TRUE, weightGradients |-> wg, biasGradients |-> bg]
    ELSE BackwardFrom(
            l - 1,
            IF l > 1 THEN NewDelta(l, delta, fw.zs, layers, weights) ELSE delta,
            [wg EXCEPT ![l] = LayerWeightGradient(l, fw.activations, delta, layers)],
            [bg EXCEPT ![l + 1] = delta],
            fw, layers, weights, biases)

BackwardPass(fw, target, neighbors, layers, weights, biases) ==
    IF ~fw.ok
    THEN [ok |-> FALSE, weightGradients |-> << >>, biasGradients |-> << >>]
    ELSE BackwardFrom(
            Len(layers) - 1,
            OutputDelta(fw.activations[Len(fw.activations)], target, neighbors,
                        layers, weights, biases),
            Array([l \in 1..(Len(layers) - 1) |-> << >>]),
            Array([l \in DOMAIN layers |-> Array([j \in 1..layers[l].num_neurons |-> 0])]),
            fw, layers, weights, biases)

backpropagate(input, target, neighbors, layers, weights, biases) ==
    BackwardPass(BackpropForward(1, << input >>, << >>, layers, weights, biases),
                 target, neighbors, layers, weights, biases)

\* ------------------------------------------------------------------------
\* Loss arithmetic
\* ------------------------------------------------------------------------
\* A loss is a number in units of 1/LossScale, finite up to MaxLoss, with the
\* same three non-finite values.  A squared difference of two numbers in
\* units of 1/Scale is SqPerLoss loss units per squared unit.
LossScale == 1000000
MaxLoss == 1000000000
SqPerLoss == LossScale \div (Scale * Scale)

IsFiniteLoss(x) == x >= -MaxLoss /\ x <= MaxLoss

LAdd(a, b) ==
    IF IsNaN(a) \/ IsNaN(b) THEN NaN
    ELSE IF a = PInf THEN (IF b = NInf THEN NaN ELSE PInf)
    ELSE IF a = NInf THEN (IF b = PInf THEN NaN ELSE NInf)
    ELSE IF b = PInf \/ b = NInf THEN b
    ELSE IF a + b > MaxLoss THEN PInf ELSE IF a + b < -MaxLoss THEN NInf ELSE a + b

\* (num/den) * Math.pow(d, 2) as a loss, d a number (den at most 2).
ScaledSquare(d, num, den) ==
    IF IsNaN(d) THEN NaN
    ELSE IF ~IsFinite(d) THEN PInf
    ELSE IF d * d > (MaxLoss * den) \div (SqPerLoss * num) THEN PInf
    ELSE RDiv(d * d * SqPerLoss * num, den)

\* c * x for a loss x and a factor c = num/den with 0 <= c <= 1.
LScale(x, num, den) ==
    IF IsNaN(x) THEN NaN
    ELSE IF ~IsFiniteLoss(x) THEN (IF num = 0 THEN NaN ELSE x)
    ELSE (x \div den) * num + RDiv((x % den) * num, den)

\* totalError / n as the code divides: n = 0 gives NaN or an infinity.
LDiv(x, n) ==
    IF IsNaN(x) THEN NaN
    ELSE IF n = 0 THEN (IF x = 0 THEN NaN ELSE IF x > 0 THEN PInf ELSE NInf)
    ELSE IF ~IsFiniteLoss(x) THEN x
    ELSE RDiv(x, n)

\* Math.sqrt of a non-negative integer, to the nearest integer.
RECURSIVE SqrtSearch(_, _, _)
SqrtSearch(n, lo, hi) ==
    IF lo >= hi THEN lo
    ELSE LET mid == (lo + hi + 1) \div 2
         IN  IF mid * mid <= n THEN SqrtSearch(n, mid, hi)
             ELSE SqrtSearch(n, lo, mid - 1)

ISqrt(n) == LET r == SqrtSearch(n, 0, 46340) IN IF n - r * r > r THEN r + 1 ELSE r

\* The sum of the squares of the numbers of an array, in squared units;
\* NaN with a NaN entry, +Infinity with an infinite entry or once the sum is
\* so large that its root is no finite number.
RECURSIVE SumSquares(_, _, _)
SumSquares(arr, i, acc) ==
    IF i > Len(arr) THEN acc
    ELSE IF IsNaN(arr[i]) THEN NaN
    ELSE IF ~IsFinite(arr[i]) \/ acc = PInf \/ acc > MaxLoss
         THEN SumSquares(arr, i + 1, PInf)
    ELSE SumSquares(arr, i + 1, acc + arr[i] * arr[i])

SqrtOfSquares(ss) == IF IsNaN(ss) \/ ss = PInf THEN ss ELSE Norm(ISqrt(ss))

\* distance(p1, p2): the reduce runs over p1, p2 is read at the same index.
distance(p1, p2) ==
    SqrtOfSquares(SumSquares(Array([i \in DOMAIN p1 |-> Sub(p1[i], Elem(p2, i))]), 1, 0))

\* ------------------------------------------------------------------------
\* Normalization
\* ------------------------------------------------------------------------
RECURSIVE FoldBound(_, _, _, _, _)
FoldBound(points, p, dim, acc, least) ==
    IF p > Len(points) THEN acc
    ELSE FoldBound(points, p + 1, dim,
                   IF least THEN MathMin(acc, Elem(points[p], dim))
                   ELSE MathMax(acc, Elem(points[p], dim)),
                   least)

\* findBounds(points); points[0].length throws on an empty array.  The inner
\* forEach visits the entries each point has, so a point shorter than the
\* first leaves the bound of a missing dimension as it was.
findBounds(points) ==
    [mins |-> Array([d \in 1..Len(points[1]) |->
                  FoldBound(SelectSeq(points, LAMBDA q : d <= Len(q)), 1, d, PInf, TRUE)]),
     maxs |-> Array([d \in 1..Len(points[1]) |->
                  FoldBound(SelectSeq(points, LAMBDA q : d <= Len(q)), 1, d, NInf, FALSE)])]

\* normalizePoint without its test of the range.
NormalizeUnguarded(point, mins, maxs) ==
    Array([i \in DOMAIN point |->
        Mul(Div(Sub(point[i], Elem(mins, i)), Sub(Elem(maxs, i), Elem(mins, i))),
            IF i = 3 THEN Scale \div 2 ELSE Scale)])

normalizePoint(point, mins, maxs) ==
    Array([i \in DOMAIN point |->
        LET range == Sub(Elem(maxs, i), Elem(mins, i))
        IN  IF range = 0 THEN 0
            ELSE Mul(Div(Sub(point[i], Elem(mins, i)), range),
                     IF i = 3 THEN Scale \div 2 ELSE Scale)])

denormalizePoint(point, mins, maxs) ==
    Array([i \in DOMAIN point |->
        LET range == Sub(Elem(maxs, i), Elem(mins, i))
        IN  IF range = 0 THEN Elem(mins, i)
            ELSE Add(Mul(Div(Add(point[i], Scale), 2 * Scale), range), Elem(mins, i))])

NormalizeWith(trainingData, ib, tb) ==
    Array([n \in DOMAIN trainingData |->
            [input |-> normalizePoint(trainingData[n].input, ib.mins, ib.maxs),
             target |-> normalizePoint(trainingData[n].target, tb.mins, tb.maxs)]])

NormalizedData(trainingData) ==
    NormalizeWith(trainingData,
                  findBounds(Array([n \in DOMAIN trainingData |-> trainingData[n].input])),
                  findBounds(Array([n \in DOMAIN trainingData |-> trainingData[n].target])))

\* ------------------------------------------------------------------------
\* Nearest neighbours and the loss of one example
\* ------------------------------------------------------------------------
\* Array.prototype.sort with (a, b) => a.dist - b.dist on finite distances:
\* a stable insertion of each index after the entries not farther than it.
RECURSIVE InsertByDist(_, _, _)
InsertByDist(sorted, n, dist) ==
    IF sorted = << >> THEN << n >>
    ELSE IF Lt(dist[n], dist[Head(sorted)]) THEN << n >> \o sorted
    ELSE << Head(sorted) >> \o InsertByDist(Tail(sorted), n, dist)

RECURSIVE SortByDist(_, _, _)
SortByDist(candidates, sorted, dist) ==
    IF candidates = << >> THEN sorted
    ELSE SortByDist(Tail(candidates), InsertByDist(sorted, Head(candidates), dist), dist)

\* s.slice(0, k) for k >= 0.
Prefix(s, k) == SubSeq(s, 1, IF k < Len(s) THEN k ELSE Len(s))

NearestByDist(dist, k) ==
    Prefix(SortByDist(SelectSeq(Array([n \in DOMAIN dist |-> n]),
                                LAMBDA n : Lt(0, dist[n])),
                      << >>, dist), k)

\* findKNearestNeighbors(point, batch.map(d => d.input), k), as the indices
\* in the batch of the points returned (the code finds the index back by
\* reference, batch.findIndex(d => d.input === n)).
findKNearestNeighbors(point, batch, k) ==
    NearestByDist(Array([n \in DOMAIN batch |-> distance(point, batch[n].input)]), k)

DimWeights == << Scale, Scale, (3 * Scale) \div 2 >>

RECURSIVE SumLoss(_, _, _)
SumLoss(terms, i, acc) ==
    IF i > Len(terms) THEN acc ELSE SumLoss(terms, i + 1, LAdd(acc, terms[i]))

\* output.reduce((sum, o, i) => sum + 0.5 * Math.pow(o - target[i], 2), 0)
MseLoss(output, target) ==
    SumLoss(Array([i \in DOMAIN output |-> ScaledSquare(Sub(output[i], Elem(target, i)), 1, 2)]),
            1, 0)

\* dimWeights[dim] * Math.pow(val - target[dim], 2); dimWeights has 3 entries.
computeGeometricLoss(predicted, target, neighborsPred, neighborsTarget) ==
    LET direct == SumLoss(Array([d \in DOMAIN predicted |->
                              IF d > Len(DimWeights) THEN NaN
                              ELSE ScaledSquare(Sub(predicted[d], Elem(target, d)),
                                                DimWeights[d] \div (Scale \div 2), 2)]),
                         1, 0)
        pairs == SumLoss(Array([n \in DOMAIN neighborsPred |->
                            ScaledSquare(Sub(distance(predicted, neighborsPred[n]),
                                             distance(target, neighborsTarget[n])),
                                         1, 1)]), 1, 0)
    IN  LAdd(direct, pairs)

\* l2Factor is held in units of 1/L2Den (the default 0.00005 is 5).
L2Den == 100000

\* l2Factor * layerWeights.reduce((sum, w) => sum + 0.5 * w * w, 0), added
\* for each layer pair of the table in turn (l2Factor at most 0.2).
L2Penalty(weights, l2Factor) ==
    SumLoss(Array([k \in DOMAIN weights |->
                LScale(SumLoss(Array([i \in DOMAIN weights[k] |->
                                  ScaledSquare(weights[k][i], 1, 2)]), 1, 0),
                       l2Factor, L2Den)]), 1, 0)

\* ------------------------------------------------------------------------
\* One mini-batch of trainNetwork
\* ------------------------------------------------------------------------
NeighborOutputs(neighbors, batch, layers, currentWeights, currentBiases) ==
    Array([n \in DOMAIN neighbors |->
            forward(batch[neighbors[n]].input, layers, currentWeights, currentBiases).out])

\* mseLoss + 0.1 * geometricLoss and the L2 term, as added to totalError.
ExampleLoss(output, target, neighborOutputs, neighborTargets, currentWeights, l2Factor) ==
    LAdd(LAdd(MseLoss(output, target),
              LScale(computeGeometricLoss(output, target, neighborOutputs,
                                          neighborTargets), 1, 10)),
         L2Penalty(currentWeights, l2Factor))

ExampleResult(fw, bp, example, neighbors, batch, layers, currentWeights, currentBiases, l2Factor) ==
    IF ~fw.ok \/ ~bp.ok
    THEN [ok |-> FALSE, loss |-> 0, weightGradients |-> << >>, biasGradients |-> << >>]
    ELSE [ok |-> TRUE,
          loss |-> ExampleLoss(fw.out, example.target,
                               NeighborOutputs(neighbors, batch, layers, currentWeights,
                                               currentBiases),
                               Array([n \in DOMAIN neighbors |-> batch[neighbors[n]].target]),
                               currentWeights,
                               l2Factor),
          weightGradients |-> bp.weightGradients,
          biasGradients |-> bp.biasGradients]

ExampleWith(example, neighbors, batch, layers, currentWeights, currentBiases, l2Factor) ==
    ExampleResult(forward(example.input, layers, currentWeights, currentBiases),
                  backpropagate(example.input, example.target,
                                Array([n \in DOMAIN neighbors |->
                                    [input |-> batch[neighbors[n]].input,
                                     target |-> batch[neighbors[n]].target]]),
                                layers, currentWeights, currentBiases),
                  example, neighbors, batch, layers, currentWeights, currentBiases,
                  l2Factor)

\* The body of `for (const example of batch)` for one example: its loss and
\* its gradients, or the TypeError forward or backpropagate throws.
ProcessExample(example, batch, layers, currentWeights, currentBiases, l2Factor) ==
    ExampleWith(example,
                findKNearestNeighbors(example.input, batch, MathMin(5, Len(batch) - 1)),
                batch, layers, currentWeights, currentBiases, l2Factor)

\* batchGradients.weights[key] after one more example.
AccumulateWeights(acc, grads) ==
    Array([k \in DOMAIN acc \cup DOMAIN grads |->
        IF k \notin DOMAIN acc THEN grads[k]
        ELSE IF k \notin DOMAIN grads THEN acc[k]
        ELSE Array([i \in DOMAIN acc[k] |-> Add(acc[k][i], Elem(grads[k], i))])])

\* The gradient accumulation loop over the examples n.. of the batch.
\* biasGradients[i][j] with biasGradients[i] undefined throws.
RECURSIVE AccumulateBatch(_, _, _, _, _, _, _)
AccumulateExample(n, acc, ex, batch, layers, currentWeights, currentBiases, l2Factor) ==
    IF ~ex.ok \/ (\E i \in DOMAIN acc.biases :
                    Len(acc.biases[i]) > 0 /\ i \notin DOMAIN ex.biasGradients)
    THEN [acc EXCEPT !.ok = FALSE]
    ELSE AccumulateBatch(
            n + 1,
            [ok |-> TRUE,
             error |-> LAdd(acc.error, ex.loss),
             weights |-> AccumulateWeights(acc.weights, ex.weightGradients),
             biases |-> Array([i \in DOMAIN acc.biases |->
                          Array([j \in DOMAIN acc.biases[i] |->
                              Add(acc.biases[i][j], Elem(ex.biasGradients[i], j))])])],
            batch, layers, currentWeights, currentBiases, l2Factor)

AccumulateBatch(n, acc, batch, layers, currentWeights, currentBiases, l2Factor) ==
    IF n > Len(batch) THEN acc
    ELSE AccumulateExample(n, acc,
                           ProcessExample(batch[n], batch, layers, currentWeights,
                                          currentBiases, l2Factor),
                           batch, layers, currentWeights, currentBiases, l2Factor)

\* The gradient kept as it is, whatever its norm.
NoClip(g, norm, maxNorm) == g

ClipToNorm(g, norm, maxNorm) ==
    IF Lt(maxNorm, norm)
    THEN Array([i \in DOMAIN g |-> Mul(g[i], Div(maxNorm, norm))])
    ELSE g

\* clipGradients(gradients, 0.5)
clipGradients(gradients, maxNorm) ==
    Array([k \in DOMAIN gradients |->
            ClipToNorm(gradients[k], SqrtOfSquares(SumSquares(gradients[k], 1, 0)),
                       maxNorm)])

\* baseMomentum + (1 - baseMomentum) * (epoch / epochs)
Momentum(epoch, epochs) ==
    (9 * Scale) \div 10 + RDiv((Scale \div 10) * epoch, epochs)

\* Math.pow(0.998, epoch), in thousandths.
RECURSIVE DecayMilli(_)
DecayMilli(epoch) == IF epoch <= 0 THEN 1000 ELSE RDiv(DecayMilli(epoch - 1) * 998, 1000)

DecayedLR(learningRate, epoch) == RDiv(learningRate * DecayMilli(epoch), 1000)

\* The rate divided by the batch_size option instead.
ScaledByOption(decayedLR, batch, batchSize) == Div(decayedLR, batchSize * Scale)

\* decayedLR / batch.length
ScaledLR(decayedLR, batch, batchSize) == Div(decayedLR, Len(batch) * Scale)


\* l2Factor * currentWeights[key][i], as a number.
L2Gradient(l2Factor, w) ==
    IF IsNaN(w) THEN NaN
    ELSE IF ~IsFinite(w) THEN (IF l2Factor = 0 THEN NaN ELSE w)
    ELSE RDiv(l2Factor * w, L2Den)

\* weightVelocities after the batch: momentum * velocity - scaledLR *
\* (gradient + l2Factor * weight), for the keys of the batch gradients.
UpdatedWeightVelocities(weightVelocities, gradients, currentWeights, momentum, scaledLR, l2Factor) ==
    Array([k \in DOMAIN weightVelocities |->
        IF k \in DOMAIN gradients
        THEN Array([i \in DOMAIN weightVelocities[k] |->
                Sub(Mul(momentum, weightVelocities[k][i]),
                    Mul(scaledLR,
                        Add(Elem(gradients[k], i),
                            L2Gradient(l2Factor, Elem(currentWeights[k], i)))))])
        ELSE weightVelocities[k]])

\* currentWeights[key] = currentWeights[key].map((w, i) => w + velocity[i])
UpdatedWeights(currentWeights, gradients, newVelocities) ==
    Array([k \in DOMAIN currentWeights |->
        IF k \in DOMAIN gradients
        THEN Array([i \in DOMAIN currentWeights[k] |->
                Add(currentWeights[k][i], Elem(newVelocities[k], i))])
        ELSE currentWeights[k]])

\* biasVelocities[i][j] = momentum * biasVelocities[i][j]
\*                        - scaledLR * batchGradients.biases[i][j]
UpdatedBiasVelocities(currentBiases, biasVelocities, gradients, momentum, scaledLR) ==
    Array([i \in DOMAIN biasVelocities |->
        IF i \in DOMAIN currentBiases
        THEN Array([j \in DOMAIN biasVelocities[i] |->
                IF j \in DOMAIN currentBiases[i]
                THEN Sub(Mul(momentum, biasVelocities[i][j]),
                         Mul(scaledLR, Elem(gradients[i], j)))
                ELSE biasVelocities[i][j]])
        ELSE biasVelocities[i]])

UpdatedBiases(currentBiases, newVelocities) ==
    Array([i \in DOMAIN currentBiases |->
        Array([j \in DOMAIN currentBiases[i] |->
            Add(currentBiases[i][j], Elem(newVelocities[i], j))])])

\* Array.prototype.slice(start, end): negative indices count from the end.
SliceIndex(n, len) ==
    IF n < 0 THEN (IF len + n < 0 THEN 0 ELSE len + n)
    ELSE IF n > len THEN len ELSE n

\* Every batch taken to be the whole shuffled dataset.
WholeData(shuffledData, i, batchSize) == shuffledData

\* shuffledData.slice(i, Math.min(i + batchSize, shuffledData.length))
BatchAt(shuffledData, i, batchSize) ==
    SubSeq(shuffledData,
           SliceIndex(i, Len(shuffledData)) + 1,
           SliceIndex(MathMin(i + batchSize, Len(shuffledData)), Len(shuffledData)))

\* JSON.parse(JSON.stringify(x)) of a number: NaN and the infinities are
\* written as null, and null counts as 0 in every arithmetic use made of it.
JsonCopy(table) ==
    Array([i \in DOMAIN table |->
        Array([j \in DOMAIN table[i] |-> IF IsFinite(table[i][j]) THEN table[i][j] ELSE 0])])

\* A table of the same shape filled with 0: new Array(n).fill(0) per entry.
Zeros(table) ==
    Array([i \in DOMAIN table |-> Array([j \in DOMAIN table[i] |-> 0])])

\* formatWeightsForDisplay / formatWeights: every weight through toFixed(2).
formatWeights(weights) ==
    Array([k \in DOMAIN weights |-> Array([i \in DOMAIN weights[k] |-> ToFixed2(weights[k][i])])])

\* The table handed on without formatting.
DisplayUnformatted(weights) == weights

formatWeightsForDisplay(weights) == formatWeights(weights)

\* The running total reported as it is.
TotalAsAverage(totalError, normalizedData) == totalError

AvgError(totalError, normalizedData) == LDiv(totalError, Len(normalizedData))

\* The loop without the threshold test.
NeverBelowStop(avgError) == FALSE

\* avgError < 1e-4
BelowEarlyStop(avgError) == Lt(avgError, LossScale \div 10000)

\* ------------------------------------------------------------------------
\* The hook: data generation and output post-processing
\* ------------------------------------------------------------------------
\* Math.sin on [0, pi] by linear interpolation between exact values (in
\* thousandths), extended by sin(-x) = -sin(x); cos(x) = sin(x + pi/2).
SinKnots == << <<0, 0>>, <<500, 479>>, <<1000, 841>>, <<1571, 1000>>, <<2000, 909>>,
               <<2500, 598>>, <<3000, 141>>, <<3142, 0>> >>

SinMilli(m) ==
    IF m >= 0 THEN Interp(SinKnots, 1, IF m > 3142 THEN 3142 ELSE m)
    ELSE -Interp(SinKnots, 1, IF -m > 3142 THEN 3142 ELSE -m)

\* The target createTrainingData derives from a clamped input (x, y).
\* The xor rule with its two values exchanged.
TargetExchanged(point, type) ==
    << point[1], point[2], IF Lt(0, Mul(point[1], point[2])) THEN Scale ELSE -Scale >>

TargetOf(point, type) ==
    LET x == point[1]
        y == point[2]
    IN  IF type = "xor"
        THEN LET xSign == IF Lt(0, x) THEN 1 ELSE -1
                 ySign == IF Lt(0, y) THEN 1 ELSE -1
                 xorVal == IF xSign * ySign < 0 THEN Scale ELSE -Scale
             IN  << x, y, xorVal >>
        \* Math.tanh(Math.sin(x * 3) * Math.cos(y * 3)), cos(a) as sin(pi/2 - |a|)
        ELSE << x, y,
                tanh(Mul(RDiv(SinMilli(RDiv(Mul(x, 3 * Scale) * 1000, Scale)) * Scale, 1000),
                         RDiv(SinMilli(1571 - MathAbs(RDiv(Mul(y, 3 * Scale) * 1000,
                                                           Scale))) * Scale,
                              1000))) >>

\* createTrainingData(size, type) for the points generateDataset drew.
createTrainingData(drawn, type) ==
    LET normalizedInputs ==
            Array([n \in DOMAIN drawn |->
                Array([i \in DOMAIN drawn[n] |->
                    MathMax(-Scale, MathMin(Scale, drawn[n][i]))])])
    IN  [inputs |-> normalizedInputs,
         targets |-> Array([n \in DOMAIN drawn |->
                        LET t == TargetOf(normalizedInputs[n], type)
                        IN  Array([i \in DOMAIN t |-> ensureBounds(t[i])])])]

RescaleOutputs(outputs, b) ==
    Array([n \in DOMAIN outputs |->
        Array([i \in DOMAIN outputs[n] |->
            LET range == Sub(Elem(b.maxs, i), Elem(b.mins, i))
            IN  IF range = 0 THEN 0
                ELSE Sub(Mul(Div(Sub(outputs[n][i], Elem(b.mins, i)), range),
                             2 * Scale), Scale)])])

RescaleAll(outputs) == RescaleOutputs(outputs, findBounds(outputs))

ProcessForwarded(fws) ==
    IF fws = << >> \/ \E n \in DOMAIN fws : ~fws[n].ok THEN Thrown
    ELSE [ok |-> TRUE, out |-> RescaleAll(Array([n \in DOMAIN fws |-> fws[n].out]))]

\* processOutputs(inputs, layers, weights, biases): forward on every input,
\* then each dimension rescaled to [-1, 1] over the outputs; arr[0].length
\* throws when there is no input.
processOutputs(inputs, layers, weights, biases) ==
    ProcessForwarded(Array([n \in DOMAIN inputs |->
                              forward(inputs[n], layers, weights, biases)]))

HookProgressState(h, epoch, error, currentOutputs) ==
    [epochCount |-> epoch,
     trainingError |-> error,
     coordinates |-> IF epoch % 5 = 0 /\ currentOutputs.ok
                     THEN currentOutputs.out ELSE h.coordinates,
     weights |-> h.weights,
     biases |-> h.biases,
     continue |-> ~Lt(error, LossScale \div 1000000)]

\* A callback that stores the tables it is handed into the hook's state.
HookOnProgressStoring(h, epoch, error, currentWeights, currentBiases) ==
    [HookProgressState(h, epoch, error,
                       processOutputs(h.inputs, h.layers, currentWeights, currentBiases))
        EXCEPT !.weights = currentWeights, !.biases = currentBiases]

\* The onProgress callback startTraining passes: the hook state it sets and
\* the value it returns (false is the signal to stop).
HookOnProgress(h, epoch, error, currentWeights, currentBiases) ==
    HookProgressState(h, epoch, error,
                      processOutputs(h.inputs, h.layers, currentWeights, currentBiases))

\* ------------------------------------------------------------------------
\* State
\* ------------------------------------------------------------------------
VARIABLES
    \* useNetworkConfiguration: the hook's React state
    layers, weights, biases, sampleSize, datasetType,
    inputPoints, targetCoordinates, coordinates,
    isTraining, trainingError, epochCount,
    learningRate, epochs, batchSize, l2Factor,
    \* trainNetwork: arguments and locals of the call in progress
    pc, caller, onProgress, trainLayers, argWeights, argBiases, trainingData, options,
    normalizedData, currentWeights, currentBiases, weightVelocities, biasVelocities,
    totalError, epoch, batchStart, shuffledData, result,
    \* history: what the callers observed
    progressLog, epochTotals, preRunWeights, preRunBiases, callWeights, callBiases,
    runsStarted, activeRuns, ignoredRequests, lastOutcome

hookVars == << layers, weights, biases, sampleSize, datasetType,
               inputPoints, targetCoordinates, coordinates,
               isTraining, trainingError, epochCount,
               learningRate, epochs, batchSize, l2Factor >>

argVars == << caller, onProgress, trainLayers, argWeights, argBiases, trainingData,
              options, normalizedData >>

localVars == << currentWeights, currentBiases, weightVelocities, biasVelocities,
                totalError, epoch, batchStart, shuffledData >>

historyVars == << progressLog, epochTotals, preRunWeights, preRunBiases,
                  callWeights, callBiases, runsStarted, activeRuns, ignoredRequests,
                  lastOutcome >>

vars == << hookVars, argVars, localVars, historyVars, pc, result >>

\* ------------------------------------------------------------------------
\* Bounds of the model
\* ------------------------------------------------------------------------
MaxSamples == 2
MaxEpochs == 2
MaxBatchSize == 2
MaxRuns == 1
MaxIgnored == 1
MaxNegativeStart == 2

Layer(n, kind) == [num_neurons |-> n, activation_function |-> kind]

\* defaultConfiguration.layers
DefaultLayers == << Layer(2, "tanh"), Layer(4, "tanh"), Layer(3, "tanh") >>


\* generateInitialWeights(layers): one entry of the expected length per
\* adjacent pair, each weight a multiple of 0.01; the random draw is one of
\* two tables here.
PatternEntry(k, count, seed) ==
    Array([i \in 1..count |-> (((i * 7 + k * 3 + seed) % 5) - 2) * seed * (Scale \div 4)])

PatternWeights(ls, seed) ==
    Array([k \in 1..(Len(ls) - 1) |->
        PatternEntry(k, ls[k].num_neurons * ls[k + 1].num_neurons, seed)])

\* generateBiases(layers): one entry per layer, each bias a multiple of 0.01
\* in [-0.1, 0.1].
PatternBiases(ls, seed) ==
    Array([l \in 1..Len(ls) |->
        Array([j \in 1..ls[l].num_neurons |-> (((l + j) % 3) - 1) * seed * (Scale \div 20)])])

\* arr.slice(0, -1); for a weight table, the table with its last key missing.
DropLast(arr) == SubSeq(arr, 1, Len(arr) - 1)

ParameterChoices(ls) ==
    { [weights |-> PatternWeights(ls, 0), biases |-> PatternBiases(ls, 0)],
      [weights |-> PatternWeights(ls, 1), biases |-> PatternBiases(ls, 1)],
      [weights |-> DropLast(PatternWeights(ls, 1)), biases |-> PatternBiases(ls, 1)] }

\* The points generateDataset may draw (the last one lies outside [-1, 1]).
Draws(size) ==
    [1..size -> { << Scale \div 2, Scale \div 2 >>,
                  << -(Scale \div 2), Scale \div 2 >>,
                  << (11 * Scale) \div 10, -(Scale \div 2) >> }]

FirstDraw(size) == Array([n \in 1..size |-> << Scale \div 2, ((-1) ^ n) * (Scale \div 2) >>])

TrainerIdle ==
    /\ pc = "idle"
    /\ caller = "nobody" /\ onProgress = "none"
    /\ trainLayers = << >> /\ argWeights = << >> /\ argBiases = << >>
    /\ trainingData = << >> /\ options = [epochs |-> 0]
    /\ normalizedData = << >>
    /\ currentWeights = << >> /\ currentBiases = << >>
    /\ weightVelocities = << >> /\ biasVelocities = << >>
    /\ totalError = 0 /\ epoch = 0 /\ batchStart = 0 /\ shuffledData = << >>
    /\ progressLog = << >> /\ epochTotals = << >>
    /\ preRunWeights = << >> /\ preRunBiases = << >>
    /\ callWeights = << >> /\ callBiases = << >>
    /\ runsStarted = 0 /\ activeRuns = 0 /\ ignoredRequests = 0
    /\ lastOutcome = "none"

\* The state once the initial load has finished: the default configuration
\* or a stored one.
Init ==
    /\ layers \in { DefaultLayers,
                     << Layer(2, "linear"), Layer(2, "relu"), Layer(3, "none") >> }
    /\ \E p \in ParameterChoices(layers) : weights = p.weights /\ biases = p.biases
    /\ sampleSize \in 0..MaxSamples
    /\ datasetType \in {"xor", "random"}
    /\ LET d == createTrainingData(FirstDraw(sampleSize), datasetType)
           o == processOutputs(d.inputs, layers, weights, biases)
       IN  /\ inputPoints = d.inputs
           /\ targetCoordinates = d.targets
           /\ coordinates = IF o.ok THEN o.out ELSE d.targets
    /\ isTraining = FALSE /\ trainingError = 0 /\ epochCount = 0
    /\ learningRate = Scale \div 2
    /\ epochs \in 1..MaxEpochs
    /\ batchSize \in (-1)..MaxBatchSize
    /\ l2Factor = 5
    /\ TrainerIdle
    /\ result = [call |-> "none"]

\* ------------------------------------------------------------------------
\* trainNetwork
\* ------------------------------------------------------------------------
\* [...normalizedData].sort(() => Math.random() - 0.5): some order of the data.
RECURSIVE Shuffles(_)
Shuffles(s) ==
    IF s = << >> THEN { << >> }
    ELSE UNION { { << s[n] >> \o rest :
                     rest \in Shuffles(Array([m \in 1..(Len(s) - 1) |->
                                        IF m < n THEN s[m] ELSE s[m + 1]])) } :
                 n \in DOMAIN s }

\* The Trainer writing to the caller's table itself (no copy taken).
CallerTableShared(callerTable, trainerTable) == trainerTable

\* What the caller's table holds once the Trainer has written to its own
\* table: the Trainer works on a deep copy, so the caller's is untouched.
CallerTableAfter(callerTable, trainerTable) == callerTable

\* Lines 377-416 of a call: the copies, the velocities and the normalised
\* data; findBounds throws on an empty dataset.
TrainNetworkEnter(who, callback, ls, w, b, data, opts) ==
    /\ caller' = who
    /\ onProgress' = callback
    /\ trainLayers' = ls
    /\ argWeights' = w /\ callWeights' = w
    /\ argBiases' = b /\ callBiases' = b
    /\ trainingData' = data
    /\ options' = opts
    /\ currentWeights' = JsonCopy(w)
    /\ currentBiases' = JsonCopy(b)
    /\ totalError' = 0
    /\ weightVelocities' = Zeros(w)
    /\ biasVelocities' = Zeros(b)
    /\ epoch' = 0 /\ batchStart' = 0 /\ shuffledData' = << >>
    /\ progressLog' = << >> /\ epochTotals' = << >>
    /\ result' = [call |-> "none"]
    /\ IF data = << >>
       THEN /\ normalizedData' = << >>
            /\ pc' = "threw"
       ELSE /\ normalizedData' = NormalizedData(data)
            /\ pc' = "epochStart"

TrainingPairs(inputs, targets) ==
    Array([n \in DOMAIN inputs |-> [input |-> inputs[n], target |-> targets[n]]])

\* startTraining without its guard.
GuardDropped(flag) == FALSE

\* if (isTraining) return;
AlreadyTraining(flag) == flag

\* startTraining(): a request while a run is in progress returns at once;
\* otherwise the hook draws the data and calls trainNetwork with copies of
\* its tables.
StartTraining ==
    /\ pc \in {"idle", "returned", "threw"}
    /\ pc # "idle" => caller = "hook"
    /\ IF AlreadyTraining(isTraining)
       THEN /\ ignoredRequests < MaxIgnored
            /\ ignoredRequests' = ignoredRequests + 1
            /\ UNCHANGED << hookVars, argVars, localVars, pc, result, progressLog,
                            epochTotals, preRunWeights, preRunBiases, callWeights,
                            callBiases, runsStarted, activeRuns, lastOutcome >>
       ELSE /\ runsStarted - activeRuns < MaxRuns
            /\ runsStarted' = runsStarted + 1
            /\ activeRuns' = activeRuns + 1
            /\ isTraining' = TRUE
            /\ \E drawn \in Draws(sampleSize) :
                 LET d == createTrainingData(drawn, datasetType)
                 IN  /\ inputPoints' = d.inputs
                     /\ targetCoordinates' = d.targets
                     /\ TrainNetworkEnter("hook", "hook", layers,
                                          JsonCopy(weights), JsonCopy(biases),
                                          TrainingPairs(d.inputs, d.targets),
                                          [learningRate |-> learningRate, epochs |-> epochs,
                                           batchSize |-> batchSize, l2Factor |-> l2Factor])
            /\ preRunWeights' = weights /\ preRunBiases' = biases
            /\ UNCHANGED << layers, weights, biases, sampleSize, datasetType, coordinates,
                            trainingError, epochCount, learningRate, epochs, batchSize,
                            l2Factor, ignoredRequests, lastOutcome >>

\* trainNetwork called by code other than the hook, with or without a
\* progress callback of its own.
TrainNetworkCall ==
    /\ pc = "idle" /\ ~isTraining
    /\ runsStarted - activeRuns < MaxRuns
    /\ runsStarted' = runsStarted + 1
    /\ activeRuns' = activeRuns + 1
    /\ \E callback \in {"none", "other"}, drawn \in Draws(sampleSize) :
         LET d == createTrainingData(drawn, datasetType)
         IN  TrainNetworkEnter("direct", callback, layers, weights, biases,
                               TrainingPairs(d.inputs, d.targets),
                                          [learningRate |-> learningRate, epochs |-> epochs,
                                           batchSize |-> batchSize, l2Factor |-> l2Factor])
    /\ preRunWeights' = weights /\ preRunBiases' = biases
    /\ UNCHANGED << hookVars, ignoredRequests, lastOutcome >>

\* for (let epoch = 0; epoch < epochs; epoch++) { totalError = 0; shuffle
EpochBegin ==
    /\ pc = "epochStart"
    /\ epoch < options.epochs
    /\ totalError' = 0
    /\ shuffledData' \in Shuffles(normalizedData)
    /\ batchStart' = 0
    /\ pc' = "batch"
    /\ UNCHANGED << hookVars, argVars, currentWeights, currentBiases, weightVelocities,
                    biasVelocities, epoch, historyVars, result >>

\* Lines 509-527: the Trainer's tables after the batch, and the next index.
BatchApply(error, clipped, wv, bv) ==
    /\ totalError' = error
    /\ weightVelocities' = wv
    /\ currentWeights' = UpdatedWeights(currentWeights, clipped, wv)
    /\ biasVelocities' = bv
    /\ currentBiases' = UpdatedBiases(currentBiases, bv)
    /\ argWeights' = CallerTableAfter(argWeights, currentWeights')
    /\ argBiases' = CallerTableAfter(argBiases, currentBiases')
    /\ batchStart' = batchStart + options.batchSize
    /\ pc' = "batch"
    /\ UNCHANGED << epoch, shuffledData >>

BatchUpdate(sums, clipped, momentum, scaledLR) ==
    BatchApply(sums.error, clipped,
               UpdatedWeightVelocities(weightVelocities, clipped, currentWeights,
                                       momentum, scaledLR, options.l2Factor),
               UpdatedBiasVelocities(currentBiases, biasVelocities, sums.biases,
                                     momentum, scaledLR))

\* A throw in forward or backpropagate rejects the call.
BatchOutcome(sums, momentum, scaledLR) ==
    IF ~sums.ok
    THEN /\ pc' = "threw"
         /\ UNCHANGED << localVars, argWeights, argBiases >>
    ELSE BatchUpdate(sums, clipGradients(sums.weights, Scale \div 2), momentum, scaledLR)

BatchStep(batch) ==
    BatchOutcome(AccumulateBatch(1, [ok |-> TRUE, error |-> totalError,
                                     weights |-> << >>,
                                     biases |-> Zeros(argBiases)],
                                 batch, trainLayers, currentWeights, currentBiases,
                                 options.l2Factor),
                 Momentum(epoch, options.epochs),
                 ScaledLR(DecayedLR(options.learningRate, epoch), batch,
                          options.batchSize))

\* One iteration of the batch loop (lines 438-527): the gradients of the
\* batch, then the update of the Trainer's weights, biases and velocities.
TrainBatch ==
    /\ pc = "batch"
    /\ batchStart < Len(shuffledData)
    /\ batchStart > -MaxNegativeStart
    /\ BatchStep(BatchAt(shuffledData, batchStart, options.batchSize))
    /\ UNCHANGED << hookVars, caller, onProgress, trainLayers, trainingData, options,
                    normalizedData, historyVars, result >>

\* What the callback is handed after an epoch.
ProgressCall(avgError, signal) ==
    [epoch |-> epoch, error |-> avgError,
     weights |-> formatWeightsForDisplay(currentWeights),
     biases |-> currentBiases,
     trainerWeights |-> currentWeights,
     signal |-> signal]


\* The hook's callback ran: the state it set and the value it returned.
HookNotified(r, avgError, signal) ==
    /\ signal = r.continue
    /\ progressLog' = Append(progressLog, ProgressCall(avgError, signal))
    /\ epochCount' = r.epochCount
    /\ trainingError' = r.trainingError
    /\ coordinates' = r.coordinates
    /\ weights' = r.weights
    /\ biases' = r.biases
    /\ UNCHANGED << layers, sampleSize, datasetType, inputPoints, targetCoordinates,
                    isTraining, learningRate, epochs, batchSize, l2Factor >>

\* if (onProgress) onProgress(epoch, avgError, displayWeights, currentBiases)
Notify(avgError, signal) ==
    CASE onProgress = "none" ->
            /\ signal = TRUE
            /\ UNCHANGED << progressLog, hookVars >>
      [] onProgress = "other" ->
            /\ progressLog' = Append(progressLog, ProgressCall(avgError, signal))
            /\ UNCHANGED hookVars
      [] onProgress = "hook" ->
            HookNotified(HookOnProgress([inputs |-> inputPoints, layers |-> layers,
                                         coordinates |-> coordinates,
                                         weights |-> weights, biases |-> biases],
                                        epoch, avgError,
                                        formatWeightsForDisplay(currentWeights),
                                        currentBiases),
                         avgError, signal)

\* Whether the loop goes on after the callback returned `signal` depends on
\* the error threshold only.
EpochReport(avgError) ==
    /\ epochTotals' = Append(epochTotals, totalError)
    /\ \E signal \in BOOLEAN :
         /\ Notify(avgError, signal)
         /\ IF ~BelowEarlyStop(avgError)
            THEN epoch' = epoch + 1 /\ pc' = "epochStart"
            ELSE epoch' = epoch /\ pc' = "exit"

\* Lines 529-540: the mean loss of the epoch, the progress callback and the
\* early-stop test.
EpochEnd ==
    /\ pc = "batch"
    /\ ~(batchStart < Len(shuffledData))
    /\ EpochReport(AvgError(totalError, normalizedData))
    /\ UNCHANGED << argVars, currentWeights, currentBiases, weightVelocities,
                    biasVelocities, totalError, batchStart, shuffledData,
                    preRunWeights, preRunBiases, callWeights, callBiases,
                    runsStarted, activeRuns, ignoredRequests, lastOutcome, result >>

\* Lines 542-554: the value the promise resolves with.
TrainNetworkReturn ==
    /\ pc = "exit" \/ (pc = "epochStart" /\ ~(epoch < options.epochs))
    /\ result' = [call |-> "trainNetwork",
                  weights |-> currentWeights,
                  displayWeights |-> formatWeightsForDisplay(currentWeights),
                  biases |-> currentBiases,
                  error |-> AvgError(totalError, normalizedData)]
    /\ pc' = "returned"
    /\ UNCHANGED << hookVars, argVars, localVars, historyVars >>

\* setCoordinates(finalOutputs), unless processOutputs threw into the catch.
ShowFinal(finalOutputs) ==
    IF finalOutputs.ok
    THEN coordinates' = finalOutputs.out /\ lastOutcome' = "completed"
    ELSE coordinates' = coordinates /\ lastOutcome' = "failed"

\* startTraining after the await: the results are stored and shown.
TrainingCompleted ==
    /\ pc = "returned" /\ caller = "hook"
    /\ weights' = formatWeights(result.weights)
    /\ biases' = result.biases
    /\ ShowFinal(processOutputs(inputPoints, layers, result.weights, result.biases))
    /\ isTraining' = FALSE
    /\ activeRuns' = activeRuns - 1
    /\ pc' = "idle"
    /\ UNCHANGED << layers, sampleSize, datasetType, inputPoints, targetCoordinates,
                    trainingError, epochCount, learningRate, epochs, batchSize, l2Factor,
                    argVars, localVars, result, progressLog, epochTotals, preRunWeights,
                    preRunBiases, callWeights, callBiases, runsStarted, ignoredRequests >>

\* startTraining's catch and finally when trainNetwork threw.
TrainingFailed ==
    /\ pc = "threw" /\ caller = "hook"
    /\ isTraining' = FALSE
    /\ activeRuns' = activeRuns - 1
    /\ lastOutcome' = "failed"
    /\ pc' = "idle"
    /\ UNCHANGED << layers, weights, biases, sampleSize, datasetType, inputPoints,
                    targetCoordinates, coordinates, trainingError, epochCount,
                    learningRate, epochs, batchSize, l2Factor,
                    argVars, localVars, result, progressLog, epochTotals, preRunWeights,
                    preRunBiases, callWeights, callBiases, runsStarted, ignoredRequests >>

\* The other caller receives the result or the error of its call.
CallSettled ==
    /\ pc \in {"returned", "threw"} /\ caller = "direct"
    /\ lastOutcome' = IF pc = "returned" THEN "completed" ELSE "failed"
    /\ activeRuns' = activeRuns - 1
    /\ pc' = "idle"
    /\ UNCHANGED << hookVars, argVars, localVars, result, progressLog, epochTotals,
                    preRunWeights, preRunBiases, callWeights, callBiases, runsStarted,
                    ignoredRequests >>

\* A forward that answers with the output of the forward call before it.
ForwardCallRemembering ==
    /\ pc = "idle"
    /\ \E n \in DOMAIN inputPoints :
         result' = IF result.call = "forward"
                   THEN [result EXCEPT !.input = inputPoints[n]]
                   ELSE [call |-> "forward", input |-> inputPoints[n]]
                        @@ forward(inputPoints[n], layers, weights, biases)
    /\ UNCHANGED << hookVars, argVars, localVars, historyVars, pc >>

\* forward(input, layers, weights, biases) on the stored network, called by
\* the host before, between and after training runs.
ForwardCall ==
    /\ pc = "idle"
    /\ \E n \in DOMAIN inputPoints :
         result' = [call |-> "forward", input |-> inputPoints[n]]
                   @@ forward(inputPoints[n], layers, weights, biases)
    /\ UNCHANGED << hookVars, argVars, localVars, historyVars, pc >>

Next ==
    \/ StartTraining
    \/ TrainNetworkCall
    \/ EpochBegin
    \/ TrainBatch
    \/ EpochEnd
    \/ TrainNetworkReturn
    \/ TrainingCompleted
    \/ TrainingFailed
    \/ CallSettled
    \/ ForwardCall

Spec == Init /\ [][Next]_vars

\* ------------------------------------------------------------------------
\* The control flow of a run
\* ------------------------------------------------------------------------
\* Which statement of trainNetwork and of startTraining comes next depends on
\* the loop indices, on whether forward or backpropagate threw and on whether
\* the mean loss fell below the threshold.  The steps below follow the indices
\* and leave the tables and the losses as they are: every outcome the numbers
\* can decide is possible.

\* One iteration of `for (let i = 0; i < shuffledData.length; i += batchSize)`
\* (lines 438-527): the index moves on by batchSize, unless an example of the
\* batch made forward or backpropagate throw.  The index -MaxNegativeStart
\* stands for itself and for every index below it: the loop condition holds
\* for all of them, and a negative batchSize only moves further down.
BatchFlow ==
    /\ pc = "batch"
    /\ batchStart < Len(shuffledData)
    /\ \/ /\ pc' = "batch"
          /\ batchStart' = IF batchStart + options.batchSize < -MaxNegativeStart
                           THEN -MaxNegativeStart
                           ELSE batchStart + options.batchSize
       \/ /\ BatchAt(shuffledData, batchStart, options.batchSize) # << >>
          /\ pc' = "threw"
          /\ batchStart' = batchStart
    /\ UNCHANGED << hookVars, argVars, currentWeights, currentBiases, weightVelocities,
                    biasVelocities, totalError, epoch, shuffledData, historyVars, result >>

\* Lines 529-540: after the callback either `if (avgError < 1e-4) break` or
\* the next epoch.
EpochFlow ==
    /\ pc = "batch"
    /\ ~(batchStart < Len(shuffledData))
    /\ \/ epoch' = epoch + 1 /\ pc' = "epochStart"
       \/ epoch' = epoch /\ pc' = "exit"
    /\ UNCHANGED << hookVars, argVars, currentWeights, currentBiases, weightVelocities,
                    biasVelocities, totalError, batchStart, shuffledData, historyVars,
                    result >>

\* startTraining after the await (lines 307-329): the rest of the try block
\* runs to its end or throws in processOutputs, and the finally block sets
\* isTraining to false.
SettleFlow ==
    /\ pc = "returned" /\ caller = "hook"
    /\ lastOutcome' \in {"completed", "failed"}
    /\ isTraining' = FALSE
    /\ activeRuns' = activeRuns - 1
    /\ pc' = "idle"
    /\ UNCHANGED << layers, weights, biases, sampleSize, datasetType, inputPoints,
                    targetCoordinates, coordinates, trainingError, epochCount,
                    learningRate, epochs, batchSize, l2Factor,
                    argVars, localVars, result, progressLog, epochTotals, preRunWeights,
                    preRunBiases, callWeights, callBiases, runsStarted, ignoredRequests >>

RunFlow ==
    \/ EpochBegin
    \/ BatchFlow
    \/ EpochFlow
    \/ TrainNetworkReturn
    \/ SettleFlow
    \/ TrainingFailed
    \/ CallSettled

\* The run in progress goes on: the batch loop is synchronous code, the event
\* loop resumes trainNetwork after every epoch's setTimeout(0), and the hook's
\* code after the await runs once the promise has settled.  The host's own
\* requests are under no obligation to come.
SpecLive ==
    Init /\ [][StartTraining \/ TrainNetworkCall \/ RunFlow]_vars /\ WF_vars(RunFlow)

\* ------------------------------------------------------------------------
\* forward and backpropagate called on their own
\* ------------------------------------------------------------------------
MaxNet == 3

\* A weight table of the expected shape, and tables with a non-number, with
\* entries near the largest finite number, with an array one short or one
\* long, and with the last key missing.
WeightTables(ls) ==
    LET base == PatternWeights(ls, 1)
        last == Len(ls) - 1
    IN  { base,
          Array([k \in DOMAIN base |-> Array([i \in DOMAIN base[k] |->
                    IF k = 1 /\ i = 1 THEN NaN ELSE base[k][i]])]),
          Array([k \in DOMAIN base |-> Array([i \in DOMAIN base[k] |->
                    IF i % 2 = 1 THEN MaxNum ELSE -MaxNum])]),
          Array([k \in DOMAIN base |->
                    IF k = last THEN DropLast(base[k]) ELSE base[k]]),
          Array([k \in DOMAIN base |->
                    IF k = last THEN Append(base[k], Scale) ELSE base[k]]),
          DropLast(base) }

\* A bias table of the expected shape, and tables with the last array one
\* short and with the last layer missing.
BiasTables(ls) ==
    LET base == PatternBiases(ls, 1)
    IN  { base,
          Array([l \in DOMAIN base |->
                    IF l = Len(ls) THEN DropLast(base[l]) ELSE base[l]]),
          DropLast(base) }

ForwardInit ==
    /\ layers \in { ls \in { << Layer(2, "linear") >>,
                             << Layer(2, "tanh"), Layer(1, "tanh") >>,
                             << Layer(2, "relu"), Layer(2, "linear"), Layer(1, "sigmoid") >> } :
                      Len(ls) <= MaxNet }
    /\ weights \in WeightTables(layers)
    /\ biases \in BiasTables(layers)
    /\ inputPoints \in { << << 0, 0 >> >>, << << Scale \div 2, -Scale >> >>,
                        << << 2 * Scale, -3 * Scale >> >> }
    /\ sampleSize = 1
    /\ datasetType = "random"
    /\ targetCoordinates = << << 0, 0, 0 >> >>
    /\ coordinates = << << 0, 0, 0 >> >>
    /\ isTraining = FALSE /\ trainingError = 0 /\ epochCount = 0
    /\ learningRate = Scale \div 2
    /\ epochs = 1
    /\ batchSize = 1
    /\ l2Factor = 5
    /\ TrainerIdle
    /\ result = [call |-> "none"]

\* backpropagate(input, target, neighbors, layers, weights, biases) on the
\* stored network.
BackpropagateCall ==
    /\ pc = "idle"
    /\ \E n \in DOMAIN inputPoints, neighbors \in
            { << >>, << [input |-> << 0, 0 >>, target |-> << 0, 0 >>] >> } :
         result' = [call |-> "backpropagate", input |-> inputPoints[n],
                    neighbors |-> neighbors]
                   @@ backpropagate(inputPoints[n], << Scale \div 2, 0 >>, neighbors,
                                    layers, weights, biases)
    /\ UNCHANGED << hookVars, argVars, localVars, historyVars, pc >>

SpecForward == ForwardInit /\ [][ForwardCall \/ BackpropagateCall]_vars

\* ------------------------------------------------------------------------
\* The helpers of the Trainer and of the hook, called on their own
\* ------------------------------------------------------------------------
\* The arguments of the call about to be made: a point with bounds (the
\* bounds findBounds gives for finite data, some with max = min), a table of
\* accumulated gradients, or the points drawn for a dataset.
HelperInit ==
    /\ layers = DefaultLayers
    /\ weights = PatternWeights(layers, 0)
    /\ biases = PatternBiases(layers, 0)
    /\ sampleSize = 1
    /\ datasetType = "random"
    /\ inputPoints = << >> /\ targetCoordinates = << >> /\ coordinates = << >>
    /\ isTraining = FALSE /\ trainingError = 0 /\ epochCount = 0
    /\ learningRate = Scale \div 2
    /\ epochs = 1
    /\ batchSize = 1
    /\ l2Factor = 5
    /\ TrainerIdle
    /\ result \in
         { [call |-> "none", point |-> pt, mins |-> b[1], maxs |-> b[2]] :
             pt \in { << 0, 0, 0 >>, << Scale \div 2, -Scale, Scale >>,
                      << -Scale, Scale, -(Scale \div 2) >>,
                      << 2 * Scale, 0, Scale \div 4 >> },
             b \in { << << -Scale, -Scale, -Scale >>, << Scale, Scale, Scale >> >>,
                     << << 0, 0, 0 >>, << Scale, 2 * Scale, Scale \div 2 >> >>,
                     << << 0, -Scale, Scale >>, << 0, Scale, Scale >> >>,
                     << << Scale \div 2, -Scale, 0 >>, << Scale \div 2, -Scale, 0 >> >> } }
         \cup
         { [call |-> "none", gradients |-> g] :
             g \in { << << 0, 0 >> >>,
                     << << Scale \div 4, Scale \div 4 >> >>,
                     << << (3 * Scale) \div 10, -((2 * Scale) \div 5) >> >>,
                     << << Scale, -Scale >> >>,
                     << << 3 * Scale, 4 * Scale, 0 >>, << Scale \div 10 >> >>,
                     << << Scale \div 2, Scale \div 100 >>, << -2 * Scale >> >>,
                     << << MaxNum, -MaxNum >> >>,
                     << << NaN, Scale >> >>,
                     << << PInf, Scale >> >> } }
         \cup
         { [call |-> "none", drawn |-> << << x, y >> >>, type |-> t] :
             x \in { -((3 * Scale) \div 2), -(Scale \div 2), 0, Scale \div 2,
                     (3 * Scale) \div 2 },
             y \in { -((3 * Scale) \div 2), -(Scale \div 2), 0, Scale \div 2,
                     (3 * Scale) \div 2 },
             t \in {"xor", "random"} }

\* normalizePoint(point, mins, maxs)
NormalizeCall ==
    /\ result.call = "none" /\ "point" \in DOMAIN result
    /\ result' = [call |-> "normalizePoint", point |-> result.point,
                  mins |-> result.mins, maxs |-> result.maxs,
                  out |-> normalizePoint(result.point, result.mins, result.maxs)]
    /\ UNCHANGED << hookVars, argVars, localVars, historyVars, pc >>

\* denormalizePoint(point, mins, maxs), on a point as it is or on the point
\* normalizePoint has just returned.
DenormalizeCall ==
    /\ result.call \in {"none", "normalizePoint"} /\ "point" \in DOMAIN result
    /\ result' = [call |-> "denormalizePoint",
                  point |-> IF result.call = "none" THEN result.point ELSE result.out,
                  mins |-> result.mins, maxs |-> result.maxs,
                  original |-> IF result.call = "none" THEN << >> ELSE result.point,
                  out |-> denormalizePoint(IF result.call = "none" THEN result.point
                                           ELSE result.out,
                                           result.mins, result.maxs)]
    /\ UNCHANGED << hookVars, argVars, localVars, historyVars, pc >>

\* clipGradients(batchGradients.weights, 0.5)
ClipGradientsCall ==
    /\ result.call = "none" /\ "gradients" \in DOMAIN result
    /\ result' = [call |-> "clipGradients", gradients |-> result.gradients,
                  out |-> clipGradients(result.gradients, Scale \div 2)]
    /\ UNCHANGED << hookVars, argVars, localVars, historyVars, pc >>

\* createTrainingData(size, type), for the points generateDataset has drawn.
CreateTrainingDataCall ==
    /\ result.call = "none" /\ "drawn" \in DOMAIN result
    /\ result' = [call |-> "createTrainingData", drawn |-> result.drawn,
                  type |-> result.type]
                 @@ createTrainingData(result.drawn, result.type)
    /\ UNCHANGED << hookVars, argVars, localVars, historyVars, pc >>

SpecHelpers ==
    HelperInit /\ [][NormalizeCall \/ DenormalizeCall \/ ClipGradientsCall
                      \/ CreateTrainingDataCall]_vars

\* ------------------------------------------------------------------------
\* The configuration editor: the layer and weight requests of the controls
\* ------------------------------------------------------------------------
\* Layers are numbered from 1 here: the source's index i is index i + 1, and
\* the source's key layer{i}_{i+1} is key i + 1.
MaxEditedKeys == 1
MaxTypedExtra == 1
MaxResized == 1

\* The entries of the adjacent pairs kept whatever their length.
KeptWeights(newLayers) ==
    formatWeights(Array([k \in 1..(Len(newLayers) - 1) |->
        IF k \in DOMAIN weights THEN weights[k]
        ELSE PatternEntry(k, newLayers[k].num_neurons * newLayers[k + 1].num_neurons, 1)]))

\* updateWeightsOnLayerChange, the weights: keys past the new layers are
\* deleted, an entry of the expected length is kept, any other is drawn
\* anew (the draw is the table of seed 1 here), and all go through
\* formatWeights.
KeptOrDrawnWeights(newLayers) ==
    formatWeights(Array([k \in 1..(Len(newLayers) - 1) |->
        IF /\ k \in DOMAIN weights
           /\ Len(weights[k]) = newLayers[k].num_neurons * newLayers[k + 1].num_neurons
        THEN weights[k]
        ELSE PatternEntry(k, newLayers[k].num_neurons * newLayers[k + 1].num_neurons, 1)]))

\* setCoordinates(outputs), which a throw of processOutputs never reaches.
OutputsShown(outputs) == IF outputs.ok THEN outputs.out ELSE coordinates

\* setWeights, setBiases, setInputPoints, setTargetCoordinates and
\* setCoordinates of updateWeightsOnLayerChange.
LayerChangeStored(newLayers, newWeights, newBiases, data) ==
    /\ weights' = newWeights
    /\ biases' = newBiases
    /\ inputPoints' = data.inputs
    /\ targetCoordinates' = data.targets
    /\ coordinates' = OutputsShown(processOutputs(data.inputs, newLayers, newWeights,
                                                  newBiases))

\* updateWeightsOnLayerChange(newLayers): the weights, new biases, a new
\* dataset and its outputs.
updateWeightsOnLayerChange(newLayers) ==
    LayerChangeStored(newLayers, KeptOrDrawnWeights(newLayers),
                      PatternBiases(newLayers, 1),
                      createTrainingData(FirstDraw(sampleSize), datasetType))

EditorUnchanged ==
    UNCHANGED << sampleSize, datasetType, isTraining, trainingError, epochCount,
                 learningRate, epochs, batchSize, l2Factor,
                 argVars, localVars, historyVars, pc >>

ConfigurationUnchanged ==
    UNCHANGED << layers, weights, biases, inputPoints, targetCoordinates, coordinates >>

\* handleLayerAdd without its test of the number of layers.
handleLayerAddUnguarded ==
    /\ pc = "idle"
    /\ result' = [call |-> "handleLayerAdd", applied |-> TRUE]
    /\ layers' = DropLast(layers) \o << Layer(4, "none"), Layer(3, "none") >>
    /\ updateWeightsOnLayerChange(layers')
    /\ EditorUnchanged

\* handleLayerAdd: refused at five layers, else a hidden layer of 4 neurons
\* goes in before the output layer, which is written anew with 3 neurons.
handleLayerAdd ==
    /\ pc = "idle"
    /\ IF Len(layers) >= 5
       THEN /\ result' = [call |-> "handleLayerAdd", applied |-> FALSE]
            /\ ConfigurationUnchanged
       ELSE /\ result' = [call |-> "handleLayerAdd", applied |-> TRUE]
            /\ layers' = DropLast(layers) \o << Layer(4, "none"), Layer(3, "none") >>
            /\ updateWeightsOnLayerChange(layers')
    /\ EditorUnchanged

\* onLayerRemove(index), for a hidden layer or the output layer: refused for
\* the output layer, else layers.filter((_, i) => i !== index).
onLayerRemove ==
    /\ pc = "idle"
    /\ \E index \in 2..Len(layers) :
         IF index = Len(layers)
         THEN /\ result' = [call |-> "onLayerRemove", applied |-> FALSE]
              /\ ConfigurationUnchanged
         ELSE /\ result' = [call |-> "onLayerRemove", applied |-> TRUE]
              /\ layers' = Array([i \in 1..(Len(layers) - 1) |->
                                    IF i < index THEN layers[i] ELSE layers[i + 1]])
              /\ updateWeightsOnLayerChange(layers')
    /\ EditorUnchanged

\* handleLayerUpdate storing the neuron count asked for in any layer.
handleLayerUpdateAsAsked(index, field, value) ==
    IF field = "activation_function" /\ index # 1
    THEN ConfigurationUnchanged
    ELSE /\ layers' = [layers EXCEPT ![index] =
                          IF field = "num_neurons"
                          THEN [@ EXCEPT !.num_neurons = value]
                          ELSE [@ EXCEPT !.activation_function = value]]
         /\ IF field = "num_neurons"
            THEN updateWeightsOnLayerChange(layers')
            ELSE UNCHANGED << weights, biases, inputPoints, targetCoordinates,
                              coordinates >>

\* handleLayerUpdate(index, field, value): an activation is taken for the
\* input layer only; newLayers[index] = {...newLayers[index], [field]: value}
\* with the neuron count of the last layer replaced by 3.
handleLayerUpdate(index, field, value) ==
    IF field = "activation_function" /\ index # 1
    THEN ConfigurationUnchanged
    ELSE /\ layers' = [layers EXCEPT ![index] =
                          IF field = "num_neurons"
                          THEN [@ EXCEPT !.num_neurons =
                                           IF index = Len(layers) THEN 3 ELSE value]
                          ELSE [@ EXCEPT !.activation_function = value]]
         /\ IF field = "num_neurons"
            THEN updateWeightsOnLayerChange(layers')
            ELSE UNCHANGED << weights, biases, inputPoints, targetCoordinates,
                              coordinates >>

\* The - and + buttons of a hidden layer's NumberInput (min 1, max 10).
NumberInputMin == 1
NumberInputMax == 10

\* A click changes the count of a layer only while at most MaxResized hidden
\* layers differ from the 4 neurons a layer is added with.
NumberInputDecrement ==
    /\ pc = "idle"
    /\ \E index \in 2..(Len(layers) - 1) :
         IF layers[index].num_neurons > NumberInputMin
         THEN /\ Cardinality({ i \in 2..(Len(layers) - 1) : layers[i].num_neurons # 4 }
                             \cup {index}) <= MaxResized
              /\ result' = [call |-> "NumberInput", applied |-> TRUE]
              /\ handleLayerUpdate(index, "num_neurons", layers[index].num_neurons - 1)
         ELSE /\ result' = [call |-> "NumberInput", applied |-> FALSE]
              /\ ConfigurationUnchanged
    /\ EditorUnchanged

NumberInputIncrement ==
    /\ pc = "idle"
    /\ \E index \in 2..(Len(layers) - 1) :
         IF layers[index].num_neurons < NumberInputMax
         THEN /\ Cardinality({ i \in 2..(Len(layers) - 1) : layers[i].num_neurons # 4 }
                             \cup {index}) <= MaxResized
              /\ result' = [call |-> "NumberInput", applied |-> TRUE]
              /\ handleLayerUpdate(index, "num_neurons", layers[index].num_neurons + 1)
         ELSE /\ result' = [call |-> "NumberInput", applied |-> FALSE]
              /\ ConfigurationUnchanged
    /\ EditorUnchanged

\* The activation select of the input layer, and handleLayerUpdate asked
\* for a neuron count or an activation of the output layer.
LayerUpdateRequest ==
    /\ pc = "idle"
    /\ \E index \in {1, Len(layers)} :
       \E request \in { [field |-> "activation_function", value |-> "tanh"],
                        [field |-> "num_neurons", value |-> 16] } :
         /\ request.field = "num_neurons" => index = Len(layers)
         /\ result' = [call |-> "handleLayerUpdate", field |-> request.field,
                       output |-> (index = Len(layers))]
         /\ handleLayerUpdate(index, request.field, request.value)
    /\ EditorUnchanged

\* The weights text of a layer pair after split(',') and parseFloat: a
\* number for each piece, NaN for a piece that is no number. The texts
\* typed have the expected count of pieces, fewer, or more.
TypedTexts(expectedCount) ==
    { Array([i \in 1..n |-> IF i = 1 THEN first ELSE Scale \div 2]) :
        n \in { m \in (expectedCount - MaxTypedExtra)..(expectedCount + MaxTypedExtra) :
                  m >= 1 },
        first \in { NaN } }

\* The pieces as handleWeightChange of the controls stores them.
ControlsWeightArray(pieces) ==
    Array([i \in DOMAIN pieces |->
        ToFixed2(IF IsNaN(pieces[i]) THEN Scale \div 10 ELSE pieces[i])])

\* The pieces as handleWeightBlur of the WeightsInput stores them.
BlurWeightArray(pieces) ==
    Array([i \in DOMAIN pieces |-> IF IsNaN(pieces[i]) THEN 0 ELSE ToFixed2(pieces[i])])

\* onWeightsUpdate(layerKey, newWeights) when the count is the expected one;
\* onWeightsValidChange(isValid) in either case. At most MaxEditedKeys
\* entries hold typed values rather than drawn ones.
WeightsTyped(layerKey, weightArray) ==
    IF Len(weightArray) = layers[layerKey].num_neurons * layers[layerKey + 1].num_neurons
    THEN /\ Cardinality({ k \in DOMAIN weights :
                            weights[k] # PatternEntry(k, Len(weights[k]), 1) }
                        \cup {layerKey}) <= MaxEditedKeys
         /\ weights' = [weights EXCEPT ![layerKey] = weightArray]
         /\ result' = [call |-> "handleWeightChange", isValid |-> TRUE, missing |-> 0]
         /\ UNCHANGED << layers, biases, inputPoints, targetCoordinates, coordinates >>
    ELSE /\ result' = [call |-> "handleWeightChange", isValid |-> FALSE,
                       missing |-> layers[layerKey].num_neurons
                                   * layers[layerKey + 1].num_neurons - Len(weightArray)]
         /\ ConfigurationUnchanged

handleWeightChange ==
    /\ pc = "idle"
    /\ \E layerKey \in DOMAIN weights \cap 1..(Len(layers) - 1) :
       \E pieces \in TypedTexts(layers[layerKey].num_neurons
                                * layers[layerKey + 1].num_neurons) :
         WeightsTyped(layerKey, ControlsWeightArray(pieces))
    /\ EditorUnchanged

handleWeightBlur ==
    /\ pc = "idle"
    /\ \E layerKey \in DOMAIN weights \cap 1..(Len(layers) - 1) :
       \E pieces \in TypedTexts(layers[layerKey].num_neurons
                                * layers[layerKey + 1].num_neurons) :
         WeightsTyped(layerKey, BlurWeightArray(pieces))
    /\ EditorUnchanged

\* handleWeightUpdate(layerKey, weightIndex, newValue): the weight clicked in
\* the network drawing is replaced by the number typed (1 here); an entry that
\* is missing or of another length than expected is replaced by zeros first.
\* The drawing offers the keys of the adjacent pairs and the indices of their
\* connections; the last index is taken here, in a table with fewer than
\* MaxEditedKeys edited entries.
handleWeightUpdate ==
    /\ pc = "idle"
    /\ \E layerKey \in 1..(Len(layers) - 1) :
       \E weightIndex \in {layers[layerKey].num_neurons
                             * layers[layerKey + 1].num_neurons} :
         /\ Cardinality({ k \in DOMAIN weights :
                            weights[k] # PatternEntry(k, Len(weights[k]), 1) })
                < MaxEditedKeys
         /\ weights' =
              [weights EXCEPT ![layerKey] =
                  Array([i \in 1..(layers[layerKey].num_neurons
                                   * layers[layerKey + 1].num_neurons) |->
                      IF i = weightIndex THEN Scale
                      ELSE IF /\ layerKey \in DOMAIN weights
                              /\ Len(weights[layerKey])
                                   = layers[layerKey].num_neurons
                                     * layers[layerKey + 1].num_neurons
                           THEN weights[layerKey][i]
                           ELSE 0])]
         /\ result' = [call |-> "handleWeightUpdate", applied |-> TRUE]
    /\ UNCHANGED << layers, biases, inputPoints, targetCoordinates, coordinates >>
    /\ EditorUnchanged

\* The default configuration once initializeDefaultConfiguration has drawn
\* its weights, biases and points.
EditorInit ==
    /\ layers = DefaultLayers
    /\ weights = PatternWeights(layers, 1)
    /\ biases = PatternBiases(layers, 1)
    /\ sampleSize = 1
    /\ datasetType = "random"
    /\ inputPoints = createTrainingData(FirstDraw(sampleSize), datasetType).inputs
    /\ targetCoordinates = createTrainingData(FirstDraw(sampleSize), datasetType).targets
    /\ coordinates = OutputsShown(processOutputs(inputPoints, layers, weights, biases))
    /\ isTraining = FALSE /\ trainingError = 0 /\ epochCount = 0
    /\ learningRate = Scale \div 2
    /\ epochs = 1
    /\ batchSize = 1
    /\ l2Factor = 5
    /\ TrainerIdle
    /\ result = [call |-> "none"]

SpecEditor ==
    EditorInit /\ [][handleLayerAdd \/ onLayerRemove \/ NumberInputDecrement
                      \/ NumberInputIncrement \/ LayerUpdateRequest
                      \/ handleWeightChange \/ handleWeightBlur
                      \/ handleWeightUpdate]_vars

\* ------------------------------------------------------------------------
\* The dataset selector
\* ------------------------------------------------------------------------
\* recomputeWithNewBiases(): biases drawn anew, the data generated for the
\* sample size and the dataset type of the render the function belongs to,
\* and the outputs shown unless processOutputs throws.
recomputeWithNewBiases(newBiases, data) ==
    /\ biases' = newBiases
    /\ inputPoints' = data.inputs
    /\ targetCoordinates' = data.targets
    /\ coordinates' = OutputsShown(processOutputs(data.inputs, layers, weights, newBiases))

\* onDatasetChange(value): setDatasetType(value) takes effect with the next
\* render; recomputeWithNewBiases, called in the same handler, is the function
\* of the current render and reads the datasetType of that render.
onDatasetChange ==
    /\ pc = "idle"
    /\ \E value \in {"xor", "random"} \ {datasetType}, seed \in {0, 1},
          drawn \in Draws(sampleSize) :
         /\ datasetType' = value
         /\ recomputeWithNewBiases(PatternBiases(layers, seed),
                                   createTrainingData(drawn, datasetType))
         /\ result' = [call |-> "onDatasetChange", value |-> value]
    /\ UNCHANGED << layers, weights, sampleSize, isTraining, trainingError, epochCount,
                    learningRate, epochs, batchSize, l2Factor, argVars, localVars,
                    historyVars, pc >>

SpecData == Init /\ [][onDatasetChange]_vars

\* ------------------------------------------------------------------------
\* Properties
\* ------------------------------------------------------------------------
\* C1: for every layer sequence, every weight and bias table of matching
\* shape and every input vector, each component of the vector forward returns
\* lies in [-1, 1].
C1_ForwardOutputWithinBounds ==
    (/\ result.call = "forward"
     /\ result.ok
     /\ DOMAIN weights = 1..(Len(layers) - 1)
     /\ \A k \in DOMAIN weights :
            Len(weights[k]) = layers[k].num_neurons * layers[k + 1].num_neurons
     /\ DOMAIN biases = DOMAIN layers
     /\ \A l \in DOMAIN biases : Len(biases[l]) = layers[l].num_neurons)
    => \A j \in DOMAIN result.out : -Scale <= result.out[j] /\ result.out[j] <= Scale

\* C2: once the mean loss of an epoch is below 1e-4, the run executes no
\* further epoch (no batch, no update of a parameter) and returns that mean
\* loss as its error.
C2_EarlyStop ==
    /\ []((/\ epochTotals # << >>
           /\ Lt(LDiv(epochTotals[Len(epochTotals)], Len(trainingData)),
                 LossScale \div 10000)
           /\ pc = "returned")
          => result.error = LDiv(epochTotals[Len(epochTotals)], Len(trainingData)))
    /\ [][(/\ epochTotals # << >>
           /\ Lt(LDiv(epochTotals[Len(epochTotals)], Len(trainingData)),
                 LossScale \div 10000)
           /\ runsStarted' = runsStarted)
          => /\ pc' # "batch"
             /\ UNCHANGED << currentWeights, currentBiases, weightVelocities,
                             biasVelocities, epoch, epochTotals >>]_vars

C2_StoppedEarly ==
    /\ pc = "returned"
    /\ Len(epochTotals) < options.epochs
    /\ Lt(result.error, LossScale \div 10000)

\* C3: once the progress callback has returned the stop signal (false), the
\* run executes no further epoch.
C3_StopSignalEndsRun ==
    (progressLog # << >> /\ ~progressLog[Len(progressLog)].signal) => pc # "batch"

\* C4: forward and backpropagate halt with an error when a weight entry of a
\* traversed layer pair is missing or has not the expected length, or a bias
\* entry is missing or too short.
C4_MismatchHalts ==
    (/\ result.call \in {"forward", "backpropagate"}
     /\ \/ \E k \in 1..(Len(layers) - 1) :
              \/ k \notin DOMAIN weights
              \/ Len(weights[k]) # layers[k].num_neurons * layers[k + 1].num_neurons
        \/ \E l \in 2..Len(layers) :
              \/ l \notin DOMAIN biases
              \/ Len(biases[l]) < layers[l].num_neurons)
    => ~result.ok

\* C5: a call of trainNetwork with a batch size that is not positive or with
\* an empty dataset ends with an error before any epoch begins.
C5_InvalidOptionsRejected ==
    (caller # "nobody" /\ (options.batchSize <= 0 \/ trainingData = << >>))
    => pc \in {"threw", "idle"} /\ epochTotals = << >> /\ shuffledData = << >>

\* C6: the tables the caller passed in and the weights and biases the hook
\* stores hold their values of before the run all through a run, when forward
\* or backpropagate has thrown, and after the hook has handled the failure.
C6_FailureLeavesPreRunValues ==
    (\/ pc \in {"epochStart", "batch", "exit", "threw"}
     \/ (pc = "idle" /\ lastOutcome = "failed" /\ runsStarted > 0))
    => /\ argWeights = callWeights /\ argBiases = callBiases
       /\ weights = preRunWeights /\ biases = preRunBiases

C6_ForwardFailedInRun ==
    /\ pc = "idle" /\ lastOutcome = "failed" /\ caller = "hook"
    /\ trainingData # << >>
    /\ weights = preRunWeights

\* C7: the weight table and the bias table passed to trainNetwork hold, at
\* every point of the run and after it, the values they held at the call.
C7_CallerTablesUntouched ==
    caller # "nobody" => argWeights = callWeights /\ argBiases = callBiases

C7_TrainedOnCopies ==
    /\ pc = "returned"
    /\ result.weights # callWeights
    /\ result.biases # callBiases
    /\ argWeights = callWeights

\* C8: with a progress callback, trainNetwork calls it once at the end of
\* each epoch and at no other point, with the epoch indices 0, 1, 2, ... in
\* order, at most `epochs` times, and with the epoch's running total divided
\* by the size of the dataset as the mean loss.
C8_ProgressOncePerEpoch ==
    /\ [](onProgress # "none"
          => /\ Len(progressLog) = Len(epochTotals)
             /\ Len(progressLog) <= options.epochs
             /\ \A n \in DOMAIN progressLog :
                   /\ progressLog[n].epoch = n - 1
                   /\ progressLog[n].error = LDiv(epochTotals[n], Len(trainingData)))
    /\ [][(progressLog' # progressLog /\ runsStarted' = runsStarted)
          => /\ pc = "batch" /\ ~(batchStart < Len(shuffledData))
             /\ pc' # "batch"
             /\ epochTotals' = Append(epochTotals, totalError)
             /\ Len(progressLog') = Len(progressLog) + 1
             /\ UNCHANGED << currentWeights, currentBiases >>]_vars

C8_TwoEpochsReported ==
    /\ Len(progressLog) = 2
    /\ Len(trainingData) = 2
    /\ progressLog[1].error > 0 /\ IsFiniteLoss(progressLog[1].error)
    /\ progressLog[2].epoch = 1

\* C9 as stated: the weight table handed to the progress callback equals the
\* Trainer's current weight table.
C9_CallbackGetsCurrentWeights ==
    \A n \in DOMAIN progressLog : progressLog[n].weights = progressLog[n].trainerWeights

\* C9, amended: the weight table handed to the progress callback is the
\* Trainer's current weight table with every weight rounded to two decimals
\* (the displayWeights the run returns if it ends after that epoch, not its
\* weights).
C9_CallbackGetsRoundedWeights ==
    /\ \A n \in DOMAIN progressLog :
          /\ DOMAIN progressLog[n].weights = DOMAIN progressLog[n].trainerWeights
          /\ \A k \in DOMAIN progressLog[n].weights :
                /\ DOMAIN progressLog[n].weights[k] = DOMAIN progressLog[n].trainerWeights[k]
                /\ \A i \in DOMAIN progressLog[n].weights[k] :
                      LET shown == progressLog[n].weights[k][i]
                          held == progressLog[n].trainerWeights[k][i]
                      IN  IF IsFinite(held)
                          THEN /\ shown % (Scale \div 100) = 0
                               /\ 2 * (shown - held) <= Scale \div 100
                               /\ 2 * (held - shown) <= Scale \div 100
                          ELSE shown = held
    /\ (pc = "returned" /\ progressLog # << >>)
       => /\ progressLog[Len(progressLog)].weights = result.displayWeights
          /\ progressLog[Len(progressLog)].trainerWeights = result.weights

C9_RoundingChangedAWeight ==
    \E n \in DOMAIN progressLog :
        \E k \in DOMAIN progressLog[n].weights :
            \E i \in DOMAIN progressLog[n].weights[k] :
                progressLog[n].weights[k][i] # progressLog[n].trainerWeights[k][i]

C11_YieldsBetweenEpochs ==
    (/\ pc = "epochStart" /\ caller = "hook"
     /\ 0 < epoch /\ epoch < options.epochs
     /\ ignoredRequests < MaxIgnored)
    => ENABLED StartTraining

\* C12: for every point and all bounds whose range is not zero on any
\* dimension, denormalizePoint of normalizePoint of the point is the point
\* (to within two units of the number representation).
C12_NormalizationRoundTrip ==
    (/\ result.call = "denormalizePoint"
     /\ result.original # << >>
     /\ \A d \in DOMAIN result.mins : result.maxs[d] # result.mins[d])
    => \A d \in DOMAIN result.original :
          /\ IsFinite(result.out[d])
          /\ result.out[d] - result.original[d] <= 2
          /\ result.original[d] - result.out[d] <= 2

\* C16 as stated: on a dimension whose bounds are equal, normalizePoint and
\* denormalizePoint both return 0.
C16_DegenerateMapsToZero ==
    result.call \in {"normalizePoint", "denormalizePoint"}
    => \A d \in DOMAIN result.out :
          result.maxs[d] = result.mins[d] => result.out[d] = 0

\* C16, amended: on a dimension whose bounds are equal, normalizePoint
\* returns 0 and denormalizePoint returns the bound itself (mins[d]); both
\* results are finite numbers, no quotient by the zero range is formed.
C16_DegenerateRangeHandled ==
    result.call \in {"normalizePoint", "denormalizePoint"}
    => \A d \in DOMAIN result.out :
          result.maxs[d] = result.mins[d]
          => /\ IsFinite(result.out[d])
             /\ result.call = "normalizePoint" => result.out[d] = 0
             /\ result.call = "denormalizePoint" => result.out[d] = result.mins[d]

C16_DegenerateDimensionSeen ==
    /\ result.call = "denormalizePoint"
    /\ result.original # << >>
    /\ \E d \in DOMAIN result.out :
          /\ result.maxs[d] = result.mins[d]
          /\ result.mins[d] # 0
          /\ result.point[d] = 0
          /\ result.out[d] = result.mins[d]

\* C13 as stated: after clipGradients the gradient of every layer pair has
\* an L2 norm of at most 0.5 (to within two units of the number
\* representation), whatever the accumulated gradient was.
C13_ClippedNormAtMostHalf ==
    result.call = "clipGradients"
    => \A k \in DOMAIN result.out :
          /\ ~IsNaN(SqrtOfSquares(SumSquares(result.out[k], 1, 0)))
          /\ SqrtOfSquares(SumSquares(result.out[k], 1, 0)) <= Scale \div 2 + 2

\* C13, amended: a gradient of finite numbers has after clipGradients a norm
\* of at most 0.5; it is unchanged when its norm was at most 0.5 and is
\* otherwise every entry times one factor between 0 and 1.  A gradient that
\* holds NaN has no norm above 0.5 and is returned as it is.
C13_FiniteGradientsClipped ==
    result.call = "clipGradients"
    => \A k \in DOMAIN result.out :
          /\ (\A i \in DOMAIN result.gradients[k] : IsFinite(result.gradients[k][i]))
             => /\ SqrtOfSquares(SumSquares(result.out[k], 1, 0)) <= Scale \div 2 + 2
                /\ SqrtOfSquares(SumSquares(result.gradients[k], 1, 0)) <= Scale \div 2
                   => result.out[k] = result.gradients[k]
                /\ SqrtOfSquares(SumSquares(result.gradients[k], 1, 0)) > Scale \div 2
                   => \E f \in 0..Scale :
                         result.out[k] = [i \in DOMAIN result.gradients[k] |->
                                             Mul(result.gradients[k][i], f)]
          /\ (\E i \in DOMAIN result.gradients[k] : IsNaN(result.gradients[k][i]))
             => result.out[k] = result.gradients[k]

C13_GradientWasRescaled ==
    /\ result.call = "clipGradients"
    /\ \E k \in DOMAIN result.out :
          /\ \A i \in DOMAIN result.gradients[k] : IsFinite(result.gradients[k][i])
          /\ IsFinite(SqrtOfSquares(SumSquares(result.gradients[k], 1, 0)))
          /\ SqrtOfSquares(SumSquares(result.gradients[k], 1, 0)) > Scale
          /\ result.out[k] # result.gradients[k]
          /\ SqrtOfSquares(SumSquares(result.out[k], 1, 0)) >= Scale \div 2 - 2

\* C14: for the xor pattern createTrainingData gives a clamped input (x, y)
\* with x > 0, y < 0 or x < 0, y > 0 the target (x, y, 1) and an input whose
\* x and y are both positive or both negative the target (x, y, -1).
C14_XorTargets ==
    (result.call = "createTrainingData" /\ result.type = "xor")
    => \A n \in DOMAIN result.inputs :
          /\ \A i \in 1..2 :
                result.inputs[n][i] =
                    IF result.drawn[n][i] > Scale THEN Scale
                    ELSE IF result.drawn[n][i] < -Scale THEN -Scale
                    ELSE result.drawn[n][i]
          /\ result.targets[n][1] = result.inputs[n][1]
          /\ result.targets[n][2] = result.inputs[n][2]
          /\ ((result.inputs[n][1] > 0 /\ result.inputs[n][2] < 0)
              \/ (result.inputs[n][1] < 0 /\ result.inputs[n][2] > 0))
             => result.targets[n][3] = Scale
          /\ ((result.inputs[n][1] > 0 /\ result.inputs[n][2] > 0)
              \/ (result.inputs[n][1] < 0 /\ result.inputs[n][2] < 0))
             => result.targets[n][3] = -Scale

C14_MixedSignsClamped ==
    /\ result.call = "createTrainingData" /\ result.type = "xor"
    /\ result.drawn[1][1] > Scale /\ result.drawn[1][2] < 0
    /\ result.targets[1] = << Scale, result.drawn[1][2], Scale >>

C17_AtMostFiveLayers ==
    /\ [](Len(layers) <= 5)
    /\ [][(result'.call = "handleLayerAdd" /\ Len(layers) >= 5)
           => UNCHANGED << layers, weights, biases >>]_vars

\* An add-layer request was refused at five layers.
C17_AddRefusedAtFive ==
    /\ Len(layers) = 5
    /\ result = [call |-> "handleLayerAdd", applied |-> FALSE]

\* C18: after any sequence of add-layer, remove-layer and layer-update
\* requests from the default configuration, a remove request and a neuron-count
\* update naming the output layer included, the last layer has exactly 3
\* neurons.
C18_OutputLayerHasThree == layers[Len(layers)].num_neurons = 3

\* A neuron count of 16 was asked for the output layer of a network that has
\* grown beyond the default three layers.
C18_OutputLayerUpdateAsked ==
    /\ result.call = "handleLayerUpdate"
    /\ result.field = "num_neurons" /\ result.output
    /\ Len(layers) > 3
    /\ layers[Len(layers)].num_neurons = 3

\* C19: the neuron count of a hidden layer can be set to every value from 1
\* through 16 and to no other: every count lies in 1..16, and a click on - or
\* + is without effect only at a count of 1 or of 16.
C19_CountsOneToSixteen ==
    /\ [](\A i \in 2..(Len(layers) - 1) : layers[i].num_neurons \in 1..16)
    /\ [][(result'.call = "NumberInput" /\ ~result'.applied)
           => \E i \in 2..(Len(layers) - 1) : layers[i].num_neurons \in {1, 16}]_vars

\* C20: a weights text with fewer values than neurons[i] * neurons[i+1] is
\* applied, the missing weights set to 0, so that the stored entry has the
\* expected length.
C20_ShortTextApplied ==
    [][(result'.call = "handleWeightChange" /\ result'.missing > 0)
       => /\ weights' # weights
          /\ \A k \in DOMAIN weights' :
                Len(weights'[k]) = layers[k].num_neurons * layers[k + 1].num_neurons]_vars

\* C26: in backpropagate, for every hidden layer, the derivative applied to
\* that layer's pre-activation is the derivative of the activation kind whose
\* output function was applied to that vector in the forward pass: the
\* returned bias gradient of a hidden layer is the sum propagated from the
\* next layer times the derivative, at the layer's pre-activation, of the kind
\* of the layer before it (the kind the forward pass has used there).
C26_DerivativeOfForwardKind ==
    (result.call = "backpropagate" /\ result.ok) =>
        \A l \in 2..(Len(layers) - 1) :
            result.biasGradients[l] =
                Array([i \in 1..layers[l].num_neurons |->
                    Mul(DeltaSum(0, 1, i, weights[l], result.biasGradients[l + 1],
                                 layers[l + 1].num_neurons),
                        ActDerivative(layers[l - 1].activation_function,
                                      Elem(BackpropForward(1, << result.input >>, << >>,
                                                           layers, weights, biases).zs[l - 1],
                                           i)))])

\* C27: the output vector from which backpropagate computes its output-layer
\* delta (the last activation vector of its own forward pass) equals the
\* vector forward returns for the same input, layers, weights and biases.
C27_BackpropOutputIsForwardOutput ==
    (result.call = "backpropagate" /\ result.ok) =>
        BackpropForward(1, << result.input >>, << >>, layers, weights,
                        biases).activations[Len(layers)]
            = forward(result.input, layers, weights, biases).out

\* C24 (as the code has it): in every parameter update the decayed learning
\* rate is divided by the number of examples in the batch (batch.length, which
\* is batch_size except for a short last batch): velocity = momentum *
\* velocity - (lr / batch.length) * (gradient + l2_factor * weight), and
\* weight += velocity.
C24_RateDividedByBatchLength ==
    [][(pc = "batch" /\ batchStart < Len(shuffledData) /\ pc' = "batch")
       => /\ weightVelocities' =
                UpdatedWeightVelocities(
                    weightVelocities,
                    clipGradients(
                        AccumulateBatch(1, [ok |-> TRUE, error |-> totalError,
                                            weights |-> << >>,
                                            biases |-> Zeros(argBiases)],
                                        BatchAt(shuffledData, batchStart, options.batchSize),
                                        trainLayers, currentWeights, currentBiases,
                                        options.l2Factor).weights,
                        Scale \div 2),
                    currentWeights, Momentum(epoch, options.epochs),
                    Div(DecayedLR(options.learningRate, epoch),
                        Len(BatchAt(shuffledData, batchStart, options.batchSize)) * Scale),
                    options.l2Factor)
          /\ \A k \in DOMAIN currentWeights : \A i \in DOMAIN currentWeights[k] :
                \/ currentWeights'[k][i] = currentWeights[k][i]
                \/ currentWeights'[k][i]
                       = Add(currentWeights[k][i], Elem(weightVelocities'[k], i))]_vars

\* C24: in every parameter update, the one of a short last batch included,
\* the decayed learning rate is divided by the configured batch_size option:
\* velocity = momentum * velocity - (lr / batch_size) * (gradient + l2_factor
\* * weight).
C24_RateDividedByBatchSize ==
    [][(/\ pc = "batch" /\ batchStart < Len(shuffledData) /\ pc' = "batch"
        /\ options.batchSize >= 1)
       => weightVelocities' =
                UpdatedWeightVelocities(
                    weightVelocities,
                    clipGradients(
                        AccumulateBatch(1, [ok |-> TRUE, error |-> totalError,
                                            weights |-> << >>,
                                            biases |-> Zeros(argBiases)],
                                        BatchAt(shuffledData, batchStart, options.batchSize),
                                        trainLayers, currentWeights, currentBiases,
                                        options.l2Factor).weights,
                        Scale \div 2),
                    currentWeights, Momentum(epoch, options.epochs),
                    Div(DecayedLR(options.learningRate, epoch), options.batchSize * Scale),
                    options.l2Factor)]_vars

\* A short last batch has been applied: one example where batch_size is 2,
\* and a weight has moved.
C24_ShortBatchApplied ==
    /\ pc = "batch"
    /\ options.batchSize = 2 /\ Len(shuffledData) = 1 /\ batchStart = 2
    /\ \E k \in DOMAIN weightVelocities : \E i \in DOMAIN weightVelocities[k] :
          weightVelocities[k][i] # 0

\* C25: for every example of a batch the neighbour set handed to the loss and
\* to backpropagate consists of exactly min(5, batch length - 1) samples of
\* the same batch and excludes the example itself and nothing else: a
\* different sample whose coordinates coincide with the example's is kept.
C25_NeighboursExcludeOnlyTheExample ==
    (pc = "batch" /\ batchStart < Len(shuffledData) /\ options.batchSize >= 1) =>
        \A n \in DOMAIN BatchAt(shuffledData, batchStart, options.batchSize) :
            /\ Len(findKNearestNeighbors(
                       BatchAt(shuffledData, batchStart, options.batchSize)[n].input,
                       BatchAt(shuffledData, batchStart, options.batchSize),
                       MathMin(5, Len(BatchAt(shuffledData, batchStart,
                                              options.batchSize)) - 1)))
                   = MathMin(5, Len(BatchAt(shuffledData, batchStart,
                                            options.batchSize)) - 1)
            /\ \A m \in DOMAIN findKNearestNeighbors(
                       BatchAt(shuffledData, batchStart, options.batchSize)[n].input,
                       BatchAt(shuffledData, batchStart, options.batchSize),
                       MathMin(5, Len(BatchAt(shuffledData, batchStart,
                                              options.batchSize)) - 1)) :
                  findKNearestNeighbors(
                       BatchAt(shuffledData, batchStart, options.batchSize)[n].input,
                       BatchAt(shuffledData, batchStart, options.batchSize),
                       MathMin(5, Len(BatchAt(shuffledData, batchStart,
                                              options.batchSize)) - 1))[m] # n

\* C23: for batch_size >= 1 the shuffled dataset of an epoch is a permutation
\* of the normalized dataset; the batches are the contiguous slices of it that
\* start at the multiples of batch_size, each of batch_size samples except
\* possibly the last; each batch is processed in one step that applies one
\* parameter update and moves on by batch_size, and the epoch ends only when
\* every sample has been in a batch: every sample is in exactly one batch.
C23_BatchesPartitionTheShuffle ==
    /\ []((pc = "batch" /\ options.batchSize >= 1) =>
            /\ batchStart % options.batchSize = 0
            /\ batchStart < Len(shuffledData) + options.batchSize
            /\ Len(shuffledData) = Len(normalizedData)
            /\ \E p \in [DOMAIN normalizedData -> DOMAIN normalizedData] :
                  /\ \A i \in DOMAIN p : \A j \in DOMAIN p : p[i] = p[j] => i = j
                  /\ \A i \in DOMAIN p : shuffledData[i] = normalizedData[p[i]])
    /\ [][(/\ pc = "batch" /\ batchStart < Len(shuffledData) /\ pc' = "batch"
           /\ options.batchSize >= 1)
          => /\ BatchAt(shuffledData, batchStart, options.batchSize)
                  = SubSeq(shuffledData, batchStart + 1,
                           MathMin(batchStart + options.batchSize, Len(shuffledData)))
             /\ Len(BatchAt(shuffledData, batchStart, options.batchSize))
                  = IF batchStart + options.batchSize <= Len(shuffledData)
                    THEN options.batchSize ELSE Len(shuffledData) - batchStart
             /\ batchStart' = batchStart + options.batchSize
             /\ shuffledData' = shuffledData
             /\ totalError' =
                  AccumulateBatch(1, [ok |-> TRUE, error |-> totalError,
                                      weights |-> << >>, biases |-> Zeros(argBiases)],
                                  SubSeq(shuffledData, batchStart + 1,
                                         MathMin(batchStart + options.batchSize,
                                                 Len(shuffledData))),
                                  trainLayers, currentWeights, currentBiases,
                                  options.l2Factor).error]_vars
    /\ [][(pc = "batch" /\ options.batchSize >= 1 /\ pc' \notin {"batch", "threw"})
          => (batchStart >= Len(shuffledData) /\ UNCHANGED currentWeights)]_vars

\* Two batches of one sample each have been processed in an epoch whose
\* shuffle changed the order of the data.
C23_TwoBatchesOfShuffledData ==
    /\ pc = "batch"
    /\ options.batchSize = 1 /\ Len(shuffledData) = 2 /\ batchStart = 2
    /\ shuffledData # normalizedData
    /\ currentWeights # JsonCopy(argWeights)

\* C29: every training run started by startTraining eventually leaves the
\* in-training state: isTraining becomes false again, whether trainNetwork
\* completes, stops early or fails.
C29_RunLeavesTraining == isTraining ~> ~isTraining

\* C22: after the default configuration and any sequence of add-layer,
\* remove-layer, neuron-count and weight-edit requests, the weight table has an
\* entry for every adjacent pair of layers and for no other pair, each of
\* length neurons[i] * neurons[i+1], and the bias table has one vector per
\* layer, of that layer's number of neurons.
C22_TablesMatchLayers ==
    /\ DOMAIN weights = 1..(Len(layers) - 1)
    /\ \A k \in DOMAIN weights :
          Len(weights[k]) = layers[k].num_neurons * layers[k + 1].num_neurons
    /\ DOMAIN biases = DOMAIN layers
    /\ \A l \in DOMAIN biases : Len(biases[l]) = layers[l].num_neurons

\* A layer has been removed from a network one of whose weights had been set
\* to 1 by a click: the edited entry is kept, the others fit the layers that
\* remain, one of them resized.
C22_RemovedAfterWeightEdit ==
    /\ result = [call |-> "onLayerRemove", applied |-> TRUE]
    /\ \E k \in DOMAIN weights : \E i \in DOMAIN weights[k] : weights[k][i] = Scale
    /\ \E i \in DOMAIN layers : layers[i].num_neurons \notin {2, 3, 4}

\* C30: whenever no training run (and no load) is in progress, the stored
\* coordinates are processOutputs of the stored input points, layers, weights
\* and biases: after every request, a single-weight edit, a weights-text edit
\* and an activation change included.
C30_CoordinatesAreOutputs ==
    (~isTraining /\ pc = "idle"
     /\ processOutputs(inputPoints, layers, weights, biases).ok) =>
        coordinates = processOutputs(inputPoints, layers, weights, biases).out

\* C28: after a dataset-type change has completed, the stored target
\* coordinates are those generated for the newly selected type from the
\* stored input points.
C28_TargetsOfSelectedType ==
    (result.call = "onDatasetChange") =>
        targetCoordinates = createTrainingData(inputPoints, datasetType).targets
====
